---- MODULE Spec2Model ----
(***************************************************************************)
(* A model of github.com/xmidt-org/retry: the retry policies built by      *)
(* Config (never, constant, exponential), the retryability decision        *)
(* CheckRetry, the Attempt record, and the orchestration loop runner.Run   *)
(* with handleAttempt and awaitRetry, interleaved with the environment:    *)
(* the caller ending the parent context, the MaxElapsedTime deadline       *)
(* passing, and the timer firing.                                          *)
(*                                                                         *)
(* Durations are integers in an abstract unit.  The float64 fields Jitter  *)
(* and Multiplier are numerators over FloatDen (1.0 is FloatDen), and a    *)
(* float-to-Duration conversion truncates, as Go's does.                   *)
(* Errors are the strings "nil", "e1" (a plain error), "wrapNo" and        *)
(* "wrapYes" (SetRetryable(e1, false) and SetRetryable(e1, true)), and     *)
(* the context errors "Canceled" and "DeadlineExceeded"; AllErrs adds      *)
(* longer Unwrap chains for the specification of CheckRetry.               *)
(*                                                                         *)
(* Four specifications share the state: Spec follows one Run; PolicySpec   *)
(* a caller driving one Policy through Next and Cancel; CheckRetrySpec     *)
(* the pure function CheckRetry over its inputs; TwoRunsSpec several Runs  *)
(* on one Runner, each with the Policy its newPolicy call returned.        *)
(* Three more cover package retryhttp: HttpSpec follows one Client.Do,     *)
(* with the task of newTask and CleanupResponse among the callbacks;       *)
(* BodySpec the request factories over a body and the bodies they hand     *)
(* out; ShouldRetrySpec the predicate NewShouldRetry builds.               *)
(*                                                                         *)
(* ConstructSpec follows NewRunner and NewClient through their options;    *)
(* CleanupSpec, DefaultTestSpec and TaskSpec apply CleanupResponse,        *)
(* DefaultTestErrorForRetry and the tasks of retryhttp (NewTask,           *)
(* NewSimpleTask, Task.DoCtx) to their inputs; JitterRunSpec is Spec for   *)
(* policies with Jitter = 1.0; LiveSpec is Spec with the fairness of the   *)
(* goroutine of Run and of the timer, for termination.                     *)
(***************************************************************************)
EXTENDS Integers, Sequences, FiniteSets, TLC

\* ------------------------------------------------------------------ bounds
\* largest Config.MaxRetries explored
MaxRetriesBound == 2
\* number of OnAttempt callbacks registered on the runner
NumObservers == 2
\* denominator of the fixed-point representation of float64 fields
FloatDen == 2
\* task invocations explored in one Run (covers MaxRetries + 1 attempts)
MaxAttempts == MaxRetriesBound + 1
\* number of Runs followed on one Runner in TwoRunsSpec
NumRuns == 2
\* calls of Next on one policy in PolicySpec (two past the last retry)
MaxNextCalls == MaxRetriesBound + 2
\* calls of Cancel on one policy in PolicySpec
MaxCancelCalls == 2
\* the number of bytes of a request body
BodyLen == 2
\* the most bodies a request factory and its GetBody hand out
MaxHandles == 2
\* the most options passed to NewRunner or NewClient
MaxOpts == 3

\* ------------------------------------------------------ values of the model
\* the zero value of V (V is int in the model)
ZeroV == 0
NoErr == "nil"
CtxErrs == {"Canceled", "DeadlineExceeded"}
\* what one task invocation can return: (value, error)
TaskOutcomes ==
    { [v |-> 1, e |-> "nil"], [v |-> 2, e |-> "e1"], [v |-> 2, e |-> "wrapNo"] }
\* the ShouldRetry predicates a runner is configured with: none, or
\* func(_, err) bool { return errors.Is(err, retryErr) } with retryErr = e1
Predicates == {"nil", "isRetryErr"}
Timers == {"default", "immediate"}

\* the Config values explored; Jitter and Multiplier are over FloatDen
Configs ==
    { [Interval |-> i, Jitter |-> j, Multiplier |-> m, MaxRetries |-> n,
       MaxElapsedTime |-> t, MaxInterval |-> x] :
         i \in {0, 2}, j \in {0, 1}, m \in {FloatDen, 2 * FloatDen},
         n \in 0..MaxRetriesBound, t \in {0, 1}, x \in {0, 3} }

\* Configs that differ in fields the created policy ignores are the same
\* run; keep one representative of each
UsedConfigs ==
    { c \in Configs :
        /\ c.Interval <= 0 => (c.Jitter = 0 /\ c.Multiplier = FloatDen
                                 /\ c.MaxRetries = 0 /\ c.MaxInterval = 0)
        /\ (c.Jitter <= 0 /\ c.Multiplier <= FloatDen) => c.MaxInterval = 0
        /\ c.MaxInterval > 0 => (c.Jitter > 0 /\ c.Multiplier > FloatDen)
        /\ (c.Jitter > 0 /\ c.Multiplier > FloatDen) => c.MaxInterval > 0 }

VARIABLES
    r,              \* the runner: factory, shouldRetry, onAttempts, timer
    parentErr,      \* parentCtx.Err()
    ctx,            \* the policy's context: err, and whether it has a deadline
    p,              \* the Policy of the Run
    pc,             \* where Run is
    retries,        \* the loop variable of Run
    attemptResult,  \* attemptResult of Run
    err,            \* the named result err of Run
    result,         \* the named result result of Run
    interval,       \* interval returned by handleAttempt
    keepTrying,     \* keepTrying returned by handleAttempt
    a,              \* the Attempt built by handleAttempt
    obsIdx,         \* index of the next callback in r.onAttempts
    ch,             \* the timer channel of awaitRetry
    wake,           \* the case that woke a blocked select
    taskCalls,      \* history: number of task invocations
    taskLog,        \* history: what each task invocation returned
    dispatchLog,    \* history: every Attempt handed to a callback
    nextLog,        \* history: what p.Next returned for each attempt
    trace,          \* history: the steps of Run in order
    timerLog,       \* history: the duration every timer was started with
    stopCalls,      \* history: calls of the timer's stop function
    cancelCalls,    \* history: calls of p.Cancel
    endedAt,        \* history: pc and taskCalls when the policy context ended
    runs,           \* TwoRunsSpec: each Run's state, policy handle, history
    policies,       \* TwoRunsSpec: the Policies created so far, by handle
    client,         \* HttpSpec: the retryhttp Client and the original request
    bodies,         \* HttpSpec: the body of each response the HTTPClient returned
    reqLog,         \* HttpSpec: how the request of each attempt was built and sent
    readers,        \* BodySpec: the read position of every reader object
    handles,        \* BodySpec: the bodies handed out, each naming its reader
    build           \* ConstructSpec: a NewRunner or NewClient call in progress

vars == <<r, parentErr, ctx, p, pc, retries, attemptResult, err, result,
          interval, keepTrying, a, obsIdx, ch, wake, taskCalls, taskLog,
          dispatchLog, nextLog, trace, timerLog, stopCalls, cancelCalls,
          endedAt, runs, policies, client, bodies, reqLog, readers, handles, build>>

httpVars == <<client, bodies, reqLog, readers, handles, build>>

runVars == <<retries, attemptResult, err, result, interval, keepTrying, a, obsIdx>>
histVars == <<taskCalls, taskLog, dispatchLog, nextLog, trace, timerLog,
              stopCalls, cancelCalls>>

\* ----------------------------------------------------------- pure functions

\* time.Duration(float64(d) * f) for a float f = num / FloatDen
MulFloat(d, num) == (d * num) \div FloatDen

\* every error value of the model: the plain errors e1 and e2, the wrappers
\* SetRetryable(e1, false|true), fmt.Errorf("%w", ...) around each wrapper,
\* and a wrapper around the wrapper with the opposite signal
AllErrs == {"nil", "e1", "e2", "wrapNo", "wrapYes", "fmtNo", "fmtYes",
            "yesOverNo", "noOverYes"}
\* the predicates CheckRetry is applied with: none, errors.Is(err, e1),
\* func(int, error) bool { return true } and { return false }
AllPredicates == Predicates \cup {"always", "neverRetry"}

\* errors.Unwrap: the next error of the chain, nil at its end
Unwrap(e) ==
    CASE e \in {"wrapNo", "wrapYes"} -> "e1"
      [] e \in {"fmtNo", "noOverYes"} -> IF e = "fmtNo" THEN "wrapNo" ELSE "wrapYes"
      [] e \in {"fmtYes", "yesOverNo"} -> IF e = "fmtYes" THEN "wrapYes" ELSE "wrapNo"
      [] e \in {"fmtTempYes", "sigNoTempYes"} -> "tempYes"
      [] e \in {"fmtTempNo", "sigYesTempNo"} -> "tempNo"
      [] e = "fmtSigNoTempYes" -> "sigNoTempYes"
      [] OTHER -> NoErr

\* the dynamic type of e is shouldRetryableWrapper
IsShouldRetryable(e) ==
    e \in {"wrapNo", "wrapYes", "yesOverNo", "noOverYes", "sigNoTempYes",
           "sigYesTempNo"}

\* the error errors.As(err, &sr) stores in sr: the first of the chain that
\* implements ShouldRetryable, nil when there is none
RECURSIVE FindShouldRetryable(_)
FindShouldRetryable(e) ==
    IF e = NoErr THEN NoErr
    ELSE IF IsShouldRetryable(e) THEN e
    ELSE FindShouldRetryable(Unwrap(e))

\* an errors.As that never finds a ShouldRetryable
AsShouldRetryableBlind(e) == FALSE

\* errors.As(err, &sr) for sr ShouldRetryable
AsShouldRetryable(e) == FindShouldRetryable(e) # NoErr
\* shouldRetryableWrapper.ShouldRetry: the retryable field of the wrapper
WrapperShouldRetry(e) == e \in {"wrapYes", "yesOverNo", "sigYesTempNo"}
\* errors.Is(err, target) along the Unwrap chain
RECURSIVE ErrorsIs(_, _)
ErrorsIs(e, target) ==
    /\ e # NoErr
    /\ (e = target \/ ErrorsIs(Unwrap(e), target))

\* ------------------------------------------------- retryhttp.NewShouldRetry
\* the errors an HTTP attempt can end with: none, a plain error, &net.DNSError
\* with IsTemporary true and false, each of these wrapped by fmt.Errorf("%w"),
\* and the context errors
HttpErrs == {"nil", "e1", "tempYes", "tempNo", "fmtTempYes", "fmtTempNo",
             "Canceled", "DeadlineExceeded"}
\* a *http.Response is its StatusCode; ZeroV is the nil response
Responses == {ZeroV, 200, 404, 429, 500}
\* the predicates NewShouldRetry builds, named after their status codes
HttpPredicates == {"httpNone", "http429", "http429or500"}

\* the codes map of the predicate
StatusCodes(pr) ==
    CASE pr = "http429" -> {429}
      [] pr = "http429or500" -> {429, 500}
      [] OTHER -> {}

\* the dynamic type of e has a Temporary() bool method: net.DNSError, and
\* the error type of context.DeadlineExceeded
HasTemporary(e) == e \in {"tempYes", "tempNo", "DeadlineExceeded"}

\* what Temporary() returns
TemporaryValue(e) == e \in {"tempYes", "DeadlineExceeded"}

\* the error errors.As(err, &t) stores in t, nil when there is none
RECURSIVE FindTemporary(_)
FindTemporary(e) ==
    IF e = NoErr THEN NoErr
    ELSE IF HasTemporary(e) THEN e
    ELSE FindTemporary(Unwrap(e))

\* a predicate that gives up on a nil response before looking at the error
NewShouldRetryNilResponseFirst(codes, response, e) ==
    CASE response = ZeroV -> FALSE
      [] FindTemporary(e) # NoErr -> TemporaryValue(FindTemporary(e))
      [] e # NoErr -> FALSE
      [] OTHER -> response \in codes

\* the closure NewShouldRetry(codes...) returns, applied to (response, err)
NewShouldRetry(codes, response, e) ==
    CASE e = NoErr /\ response # ZeroV -> response \in codes
      [] FindTemporary(e) # NoErr -> TemporaryValue(FindTemporary(e))
      [] OTHER -> FALSE

\* SetRetryable over a temporary error, "sigNoTempYes" being
\* SetRetryable(tempYes, false), and fmt.Errorf("%w", ...) over that
DefaultErrs ==
    AllErrs \cup HttpErrs \cup {"sigNoTempYes", "sigYesTempNo", "fmtSigNoTempYes"}

\* a strategy that asks Temporary before the retryability signal
DefaultTestErrorForRetryTemporaryFirst(e) ==
    IF e = NoErr THEN FALSE
    ELSE IF FindTemporary(e) # NoErr THEN TemporaryValue(FindTemporary(e))
    ELSE IF AsShouldRetryable(e) THEN WrapperShouldRetry(FindShouldRetryable(e))
    ELSE TRUE

\* DefaultTestErrorForRetry
DefaultTestErrorForRetry(e) ==
    IF e = NoErr THEN FALSE
    ELSE IF AsShouldRetryable(e) THEN WrapperShouldRetry(FindShouldRetryable(e))
    ELSE IF FindTemporary(e) # NoErr THEN TemporaryValue(FindTemporary(e))
    ELSE TRUE

\* a configured ShouldRetry predicate applied to (result, err)
ApplyPredicate(pr, v, e) ==
    CASE pr = "always" -> TRUE
      [] pr = "neverRetry" -> FALSE
      [] pr \in HttpPredicates -> NewShouldRetry(StatusCodes(pr), v, e)
      [] OTHER -> ErrorsIs(e, "e1")

\* a CheckRetry that lets the error's signal win over the predicate
CheckRetrySignalFirst(v, e, pr) ==
    CASE e = NoErr -> FALSE
      [] AsShouldRetryable(e) -> WrapperShouldRetry(FindShouldRetryable(e))
      [] pr # "nil" -> ApplyPredicate(pr, v, e)
      [] OTHER -> TRUE

CheckRetry(v, e, pr) ==
    CASE e = NoErr -> FALSE
      [] pr # "nil" -> ApplyPredicate(pr, v, e)
      [] AsShouldRetryable(e) -> WrapperShouldRetry(FindShouldRetryable(e))
      [] OTHER -> TRUE

\* a Done that takes Next = 0 for a pending retry
DoneStrict(att, ctxErr) == att.Next < 0 \/ ctxErr # NoErr

\* Attempt.Done, with ctxErr the value of a.Context.Err() at the call
Done(att, ctxErr) == att.Next <= 0 \/ ctxErr # NoErr

\* ---------------------------------------------------------------- policies
NilPolicy ==
    [kind |-> "none", cancel |-> FALSE, maxRetries |-> 0, retryCount |-> 0,
     interval |-> 0, initial |-> 0, previous |-> 0, jitter |-> 0,
     multiplier |-> 0, maxInterval |-> 0]

\* a NewPolicy that drops Config.MaxRetries
NewRetryingPolicyUnlimited(c) ==
    IF c.Jitter <= 0 /\ c.Multiplier <= FloatDen
    THEN [NilPolicy EXCEPT !.kind = "constant", !.cancel = TRUE,
                           !.interval = c.Interval]
    ELSE [NilPolicy EXCEPT !.kind = "exponential", !.cancel = TRUE,
                           !.initial = c.Interval,
                           !.jitter = c.Jitter, !.multiplier = c.Multiplier,
                           !.maxInterval = c.MaxInterval]

\* the policy fields Config.NewPolicy sets for a positive Interval
NewRetryingPolicy(c) ==
    IF c.Jitter <= 0 /\ c.Multiplier <= FloatDen
    THEN [NilPolicy EXCEPT !.kind = "constant", !.cancel = TRUE,
                           !.maxRetries = c.MaxRetries, !.interval = c.Interval]
    ELSE [NilPolicy EXCEPT !.kind = "exponential", !.cancel = TRUE,
                           !.maxRetries = c.MaxRetries, !.initial = c.Interval,
                           !.jitter = c.Jitter, !.multiplier = c.Multiplier,
                           !.maxInterval = c.MaxInterval]

\* a Config.NewPolicy that takes a zero Interval for a retry interval
NewPolicyZeroIntervalRetries(c) ==
    IF c.Interval < 0
    THEN [NilPolicy EXCEPT !.kind = "never", !.cancel = TRUE]
    ELSE NewRetryingPolicy(c)

\* Config.NewPolicy: the policy value (its context is the variable ctx)
NewPolicy(c) ==
    IF c.Interval <= 0
    THEN [NilPolicy EXCEPT !.kind = "never", !.cancel = TRUE]
    ELSE NewRetryingPolicy(c)

\* runner.newPolicy: a nil factory gives the never policy
RunnerNewPolicy(rn) ==
    IF rn.factory = "nil"
    THEN [NilPolicy EXCEPT !.kind = "never", !.cancel = TRUE]
    ELSE NewPolicy(rn.config)

\* Config.newPolicyCtx / context.WithCancel: the child context of parentCtx
NewPolicyCtx(rn, pErr) ==
    [err |-> pErr,
     deadline |-> rn.factory # "nil" /\ rn.config.MaxElapsedTime > 0]

\* a withinLimits that lets one retry too many through
withinLimitsOffByOne(cp, ctxErr) ==
    CASE cp.maxRetries > 0 /\ cp.retryCount > cp.maxRetries -> FALSE
      [] ctxErr # NoErr -> FALSE
      [] OTHER -> TRUE

\* corePolicy.withinLimits, with ctxErr the value of cp.ctx.Err()
withinLimits(cp, ctxErr) ==
    CASE cp.maxRetries > 0 /\ cp.retryCount >= cp.maxRetries -> FALSE
      [] ctxErr # NoErr -> FALSE
      [] OTHER -> TRUE

\* a nextBaseInterval that never grows
nextBaseIntervalNoGrowth(e) == e.initial

\* exponential.nextBaseInterval: the un-jittered base
nextBaseInterval(e) ==
    IF e.previous > 0
    THEN LET b1 == IF e.multiplier > FloatDen
                   THEN MulFloat(e.previous, e.multiplier) ELSE e.previous
         IN  IF e.maxInterval > 0 /\ b1 > e.maxInterval THEN e.maxInterval ELSE b1
    ELSE e.initial

\* a delta computed once, from the initial interval
JitterDeltaOfInitial(e, base) == MulFloat(e.initial, e.jitter)

\* delta of exponential.jitterize
JitterDelta(e, base) == MulFloat(base, e.jitter)

\* a jitterize without the final clamp to maxInterval
jitterizeNoClamp(e, base, rnd) ==
    IF e.jitter > 0 THEN base - JitterDelta(e, base) + rnd ELSE base

\* exponential.jitterize, with rnd the value e.rand(2*delta+1) returned
jitterize(e, base, rnd) ==
    LET n1 == IF e.jitter > 0 THEN base - JitterDelta(e, base) + rnd ELSE base
    IN  IF e.maxInterval > 0 /\ n1 > e.maxInterval THEN e.maxInterval ELSE n1

\* the values e.rand can return in the Next call about to be made
RandChoices(pol, ctxErr) ==
    IF pol.kind = "exponential" /\ pol.jitter > 0 /\ withinLimits(pol, ctxErr)
    THEN 0 .. (2 * JitterDelta(pol, nextBaseInterval(pol)))
    ELSE {0}

\* never.Next: the policy after the call, the interval and the ok flag
NeverNext(pol) == [p |-> pol, interval |-> 0, ok |-> FALSE]

\* a constant.Next that keeps handing out its interval when it stops
ConstantNextStopKeepsInterval(pol, ctxErr) ==
    IF ~withinLimits(pol, ctxErr)
    THEN [p |-> pol, interval |-> pol.interval, ok |-> FALSE]
    ELSE [p |-> [pol EXCEPT !.retryCount = @ + 1],
          interval |-> pol.interval, ok |-> TRUE]

\* constant.Next
ConstantNext(pol, ctxErr) ==
    IF ~withinLimits(pol, ctxErr)
    THEN [p |-> pol, interval |-> 0, ok |-> FALSE]
    ELSE [p |-> [pol EXCEPT !.retryCount = @ + 1],
          interval |-> pol.interval, ok |-> TRUE]

\* an exponential.Next that does not consult withinLimits
ExponentialNextUnchecked(pol, ctxErr, rnd) ==
    LET base == nextBaseInterval(pol)
    IN  [p |-> [pol EXCEPT !.retryCount = @ + 1, !.previous = base],
         interval |-> jitterize(pol, base, rnd), ok |-> TRUE]

\* exponential.Next, with rnd the value e.rand returned
ExponentialNext(pol, ctxErr, rnd) ==
    IF ~withinLimits(pol, ctxErr)
    THEN [p |-> pol, interval |-> 0, ok |-> FALSE]
    ELSE LET base == nextBaseInterval(pol)
         IN  [p |-> [pol EXCEPT !.retryCount = @ + 1, !.previous = base],
              interval |-> jitterize(pol, base, rnd), ok |-> TRUE]

\* a Next that does not count the retries it grants
PolicyNextUncounted(pol, ctxErr, rnd) ==
    LET nx == CASE pol.kind = "constant" -> ConstantNext(pol, ctxErr)
                [] pol.kind = "exponential" -> ExponentialNext(pol, ctxErr, rnd)
                [] OTHER -> NeverNext(pol)
    IN  [nx EXCEPT !.p = pol]

\* Policy.Next, dispatched on the dynamic type of the policy
PolicyNext(pol, ctxErr, rnd) ==
    CASE pol.kind = "constant" -> ConstantNext(pol, ctxErr)
      [] pol.kind = "exponential" -> ExponentialNext(pol, ctxErr, rnd)
      [] OTHER -> NeverNext(pol)

\* ------------------------------------------------------------------- state
\* no Client, no response and no request body exists
\* no constructor call is in progress
NoBuild == [ctor |-> "none"]

HttpAtRest ==
    /\ client = "none"
    /\ bodies = <<>>
    /\ reqLog = <<>>
    /\ readers = <<>>
    /\ handles = <<>>
    /\ build = NoBuild

ZeroAttempt ==
    [Context |-> "nil", Result |-> ZeroV, Err |-> NoErr, Retries |-> 0, Next |-> 0]

\* Policy.Context: the context object the policy holds, the child of
\* parentCtx made by newPolicy (its Err() is the variable ctx)
PolicyContext(pol) == "policyCtx"

\* an Attempt that counts the attempt itself among the retries
NewAttemptCountsSelf(pol, n, v, e) ==
    [Context |-> PolicyContext(pol), Result |-> v, Err |-> e, Retries |-> n + 1,
     Next |-> 0]

\* the Attempt literal of handleAttempt
NewAttempt(pol, n, v, e) ==
    [Context |-> PolicyContext(pol), Result |-> v, Err |-> e, Retries |-> n,
     Next |-> 0]

Init ==
    /\ r \in { [factory |-> f, config |-> c, shouldRetry |-> s,
                onAttempts |-> n, timer |-> t] :
                 f \in {"nil", "Config"}, c \in UsedConfigs, s \in Predicates,
                 n \in {NumObservers}, t \in Timers }
    /\ r.factory = "nil" => r.config = [Interval |-> 0, Jitter |-> 0,
                                        Multiplier |-> FloatDen, MaxRetries |-> 0,
                                        MaxElapsedTime |-> 0, MaxInterval |-> 0]
    /\ parentErr = NoErr
    /\ ctx = [err |-> NoErr, deadline |-> FALSE]
    /\ p = NilPolicy
    /\ pc = "idle"
    /\ retries = 0
    /\ attemptResult = ZeroV
    /\ err = NoErr
    /\ result = ZeroV
    /\ interval = 0
    /\ keepTrying = FALSE
    /\ a = ZeroAttempt
    /\ obsIdx = 0
    /\ ch = "none"
    /\ wake = "none"
    /\ taskCalls = 0
    /\ taskLog = <<>>
    /\ dispatchLog = <<>>
    /\ nextLog = <<>>
    /\ trace = <<>>
    /\ timerLog = <<>>
    /\ stopCalls = 0
    /\ cancelCalls = 0
    /\ endedAt = [pc |-> "never", calls |-> 0]
    /\ runs = <<>>
    /\ policies = <<>>
    /\ HttpAtRest


\* ------------------------------------------------------------- environment
\* what the end of the policy context does to a select blocked in awaitRetry
WakeOnDone == IF pc = "blocked" /\ wake = "none" THEN "ctx" ELSE wake

\* the caller cancels parentCtx, or parentCtx's own deadline passes; the
\* cancellation propagates to the policy's child context
EndParent ==
    /\ parentErr = NoErr
    /\ \E e \in CtxErrs :
         /\ parentErr' = e
         /\ IF pc # "idle" /\ ctx.err = NoErr
            THEN /\ ctx' = [ctx EXCEPT !.err = e]
                 /\ endedAt' = [pc |-> pc, calls |-> taskCalls]
                 /\ wake' = WakeOnDone
            ELSE UNCHANGED <<ctx, endedAt, wake>>
    /\ UNCHANGED <<r, runs, policies, httpVars, p, pc, runVars, ch, histVars>>

\* the deadline of context.WithTimeout(parentCtx, MaxElapsedTime) passes
DeadlineExpire ==
    /\ pc # "idle"
    /\ ctx.deadline
    /\ ctx.err = NoErr
    /\ ctx' = [ctx EXCEPT !.err = "DeadlineExceeded"]
    /\ endedAt' = [pc |-> pc, calls |-> taskCalls]
    /\ wake' = WakeOnDone
    /\ UNCHANGED <<r, runs, policies, httpVars, parentErr, p, pc, runVars, ch, histVars>>

\* the timer started by awaitRetry fires: a value is sent on its channel
TimerFire ==
    /\ ch = "armed"
    /\ ch' = "ready"
    /\ wake' = IF pc = "blocked" /\ wake = "none" THEN "timer" ELSE wake
    /\ UNCHANGED <<r, runs, policies, httpVars, parentErr, ctx, p, pc, runVars, histVars, endedAt>>

\* --------------------------------------------------------------- runner.Run
\* p := r.newPolicy(parentCtx); defer p.Cancel()
RunStart ==
    /\ pc = "idle"
    /\ p' = RunnerNewPolicy(r)
    /\ ctx' = NewPolicyCtx(r, parentErr)
    /\ endedAt' = IF parentErr # NoErr THEN [pc |-> "idle", calls |-> 0] ELSE endedAt
    /\ pc' = "loop"
    /\ trace' = Append(trace, "newPolicy")
    /\ UNCHANGED <<r, runs, policies, httpVars, parentErr, runVars, ch, wake, taskCalls, taskLog,
                   dispatchLog, nextLog, timerLog, stopCalls, cancelCalls>>

\* a loop that goes on whatever the state of the context
LoopConditionAlways(ctxErr) == TRUE

\* the loop condition of Run: taskCtx.Err() == nil
LoopCondition(ctxErr) == ctxErr = NoErr

\* the loop condition is evaluated, and when it holds task(taskCtx) is called
LoopCheck ==
    /\ pc = "loop"
    /\ IF LoopCondition(ctx.err)
       THEN /\ taskCalls < MaxAttempts
            /\ pc' = "task"
            /\ taskCalls' = taskCalls + 1
            /\ trace' = Append(trace, "taskStart")
       ELSE /\ pc' = "exit"
            /\ trace' = Append(trace, "loopEnd")
            /\ UNCHANGED taskCalls
    /\ UNCHANGED <<r, runs, policies, httpVars, parentErr, ctx, p, runVars, ch, wake, taskLog,
                   dispatchLog, nextLog, timerLog, stopCalls, cancelCalls, endedAt>>

\* attemptResult, err = task(taskCtx): the task returns
TaskReturn ==
    /\ pc = "task"
    /\ \E o \in TaskOutcomes :
         /\ attemptResult' = o.v
         /\ err' = o.e
         /\ taskLog' = Append(taskLog, [v |-> o.v, e |-> o.e,
                                        ctx |-> PolicyContext(p)])
    /\ pc' = "handle"
    /\ trace' = Append(trace, "taskEnd")
    /\ UNCHANGED <<r, runs, policies, httpVars, parentErr, ctx, p, retries, result, interval, keepTrying,
                   a, obsIdx, ch, wake, taskCalls, dispatchLog, nextLog,
                   timerLog, stopCalls, cancelCalls, endedAt>>

\* runner.handleAttempt up to the callbacks: build the Attempt, CheckRetry,
\* and p.Next() when the result warrants a retry
HandleAttempt ==
    /\ pc = "handle"
    /\ LET a0 == NewAttempt(p, retries, attemptResult, err)
           sr == CheckRetry(attemptResult, err, r.shouldRetry)
       IN  IF sr
           THEN \E rnd \in RandChoices(p, ctx.err) :
                  LET nx == PolicyNext(p, ctx.err, rnd)
                  IN  /\ p' = nx.p
                      /\ interval' = nx.interval
                      /\ keepTrying' = nx.ok
                      /\ a' = [a0 EXCEPT !.Next = nx.interval]
                      /\ nextLog' = Append(nextLog,
                                      [asked |-> TRUE, interval |-> nx.interval,
                                       ok |-> nx.ok])
                      /\ trace' = trace \o <<"checkRetry", "next">>
           ELSE /\ interval' = 0
                /\ keepTrying' = FALSE
                /\ a' = a0
                /\ nextLog' = Append(nextLog,
                                [asked |-> FALSE, interval |-> 0, ok |-> FALSE])
                /\ trace' = Append(trace, "checkRetry")
                /\ UNCHANGED p
    /\ obsIdx' = 1
    /\ pc' = "dispatch"
    /\ UNCHANGED <<r, runs, policies, httpVars, parentErr, ctx, retries, attemptResult, err, result, ch,
                   wake, taskCalls, taskLog, dispatchLog, timerLog, stopCalls,
                   cancelCalls, endedAt>>

\* a range loop that skips every other callback
NextObserverSkip(i) == i + 2

\* the index the range loop over r.onAttempts moves to
NextObserver(i) == i + 1

\* one iteration of: for _, f := range r.onAttempts { f(a) }
Dispatch ==
    /\ pc = "dispatch"
    /\ obsIdx <= r.onAttempts
    /\ dispatchLog' = Append(dispatchLog,
                        [obs |-> obsIdx, attempt |-> taskCalls, a |-> a,
                         done |-> Done(a, ctx.err)])
    /\ trace' = Append(trace, "onAttempt")
    /\ obsIdx' = NextObserver(obsIdx)
    /\ UNCHANGED <<r, runs, policies, httpVars, parentErr, ctx, p, pc, retries, attemptResult, err, result,
                   interval, keepTrying, a, ch, wake, taskCalls, taskLog,
                   nextLog, timerLog, stopCalls, cancelCalls, endedAt>>

\* a Run that starts the next attempt without waiting
AfterAttemptPcNoWait(keep) == IF ~keep THEN "exit" ELSE "loop"

\* where Run goes after handleAttempt: break, or on to awaitRetry
AfterAttemptPc(keep) == IF ~keep THEN "exit" ELSE "timer"

\* handleAttempt returns; if !keepTrying { result = attemptResult; break }
AfterAttempt ==
    /\ pc = "dispatch"
    /\ obsIdx > r.onAttempts
    /\ pc' = AfterAttemptPc(keepTrying)
    /\ result' = IF ~keepTrying THEN attemptResult ELSE result
    /\ trace' = Append(trace, CASE pc' = "exit" -> "stop"
                                [] pc' = "timer" -> "awaitRetry"
                                [] OTHER -> "noWait")
    /\ UNCHANGED <<r, runs, policies, httpVars, parentErr, ctx, p, retries, attemptResult, err, interval,
                   keepTrying, a, obsIdx, ch, wake, taskCalls, taskLog,
                   dispatchLog, nextLog, timerLog, stopCalls, cancelCalls, endedAt>>

\* awaitRetry: ch, stop := r.timer(interval)
TimerStart ==
    /\ pc = "timer"
    /\ ch' = IF r.timer = "immediate" THEN "ready" ELSE "armed"
    /\ timerLog' = Append(timerLog, interval)
    /\ wake' = "none"
    /\ pc' = "select"
    /\ UNCHANGED <<r, runs, policies, httpVars, parentErr, ctx, p, runVars, taskCalls, taskLog,
                   dispatchLog, nextLog, trace, stopCalls, cancelCalls, endedAt>>

\* an awaitRetry that stops the timer whichever case ended the wait
StopCallsAfterAnyCase(case, n) == n + 1

\* calls of stop once the select of awaitRetry has taken the given case
StopCallsAfter(case, n) == IF case = "done" THEN n + 1 ELSE n

\* case <-taskCtx.Done(): err = taskCtx.Err(); stop(); then break in Run
SelectDone ==
    /\ err' = ctx.err
    /\ stopCalls' = StopCallsAfter("done", stopCalls)
    /\ ch' = "none"
    /\ wake' = "none"
    /\ pc' = "exit"
    /\ trace' = Append(trace, "waitDone")
    /\ UNCHANGED <<r, runs, policies, httpVars, parentErr, ctx, p, retries, attemptResult, result,
                   interval, keepTrying, a, obsIdx, taskCalls, taskLog,
                   dispatchLog, nextLog, timerLog, cancelCalls, endedAt>>

\* case <-ch: awaitRetry returns nil; Run's retries++ and the next iteration
SelectTimer ==
    /\ err' = NoErr
    /\ retries' = retries + 1
    /\ ch' = "none"
    /\ wake' = "none"
    /\ pc' = "loop"
    /\ trace' = Append(trace, "waitTimer")
    /\ stopCalls' = StopCallsAfter("timer", stopCalls)
    /\ UNCHANGED <<r, runs, policies, httpVars, parentErr, ctx, p, attemptResult, result, interval,
                   keepTrying, a, obsIdx, taskCalls, taskLog, dispatchLog,
                   nextLog, timerLog, cancelCalls, endedAt>>

\* the select statement is reached: a ready case is taken, chosen among the
\* ready ones when both are; with none ready the goroutine blocks
Select ==
    /\ pc = "select"
    /\ \/ ctx.err # NoErr /\ SelectDone
       \/ ch = "ready" /\ SelectTimer
       \/ /\ ctx.err = NoErr
          /\ ch # "ready"
          /\ pc' = "blocked"
          /\ UNCHANGED <<r, runs, policies, httpVars, parentErr, ctx, p, runVars, ch, wake, histVars, endedAt>>

\* a blocked select resumes with the case whose channel woke it
Wakeup ==
    /\ pc = "blocked"
    /\ \/ wake = "ctx" /\ SelectDone
       \/ wake = "timer" /\ SelectTimer

\* a Cancel that also forgets the retries made
PolicyCancelResets(pol) ==
    IF pol.cancel /\ pol.kind # "never"
    THEN [pol EXCEPT !.cancel = FALSE, !.retryCount = 0] ELSE pol

\* never.Cancel and corePolicy.Cancel: the policy after the call; never has a
\* value receiver, so its cancel field is cleared on a copy only
PolicyCancel(pol) ==
    IF pol.cancel /\ pol.kind # "never" THEN [pol EXCEPT !.cancel = FALSE] ELSE pol

\* a Cancel that does not reach the context
CancelCtxNop(pol, c) == c

\* the cancel function called by Cancel: the policy's context after the call
CancelCtx(pol, c) ==
    IF pol.cancel /\ c.err = NoErr THEN [c EXCEPT !.err = "Canceled"] ELSE c

\* a cancel function that also ends the context its context derives from
ParentAfterCancelPropagates(pol, pErr) ==
    IF pol.cancel /\ pErr = NoErr THEN "Canceled" ELSE pErr

\* parentCtx.Err() after the cancel function of the policy was called: the
\* function is the one context.WithCancel(parentCtx) or
\* context.WithTimeout(parentCtx, ...) returned, and it ends the derived
\* context only
ParentAfterCancel(pol, pErr) == pErr

\* Run returns (result, err); the deferred p.Cancel() runs
Return ==
    /\ pc = "exit"
    /\ ctx' = CancelCtx(p, ctx)
    /\ parentErr' = ParentAfterCancel(p, parentErr)
    /\ p' = PolicyCancel(p)
    /\ cancelCalls' = cancelCalls + 1
    /\ pc' = "done"
    /\ UNCHANGED <<r, runs, policies, httpVars, runVars, ch, wake, taskCalls, taskLog,
                   dispatchLog, nextLog, trace, timerLog, stopCalls, endedAt>>

Next ==
    \/ EndParent
    \/ DeadlineExpire
    \/ TimerFire
    \/ RunStart
    \/ LoopCheck
    \/ TaskReturn
    \/ HandleAttempt
    \/ Dispatch
    \/ AfterAttempt
    \/ TimerStart
    \/ Select
    \/ Wakeup
    \/ Return

Spec == Init /\ [][Next]_vars

\* ------------------------------------------------------------- properties
\* Run has returned (result, err)
Returned == pc = "done"
\* the step of Run that ended the loop: "stop", "waitDone" or "loopEnd"
HowEnded == trace[Len(trace)]
\* the policy context ended while awaitRetry was waiting on its select
EndedInWait == endedAt.pc \in {"select", "blocked"}
\* the policy context had ended before the first evaluation of the loop condition
EndedBeforeFirstAttempt ==
    endedAt.pc = "idle" \/ (endedAt.pc = "loop" /\ endedAt.calls = 0)
\* the callbacks' view of attempt k
DispatchesOf(k) == { j \in 1..Len(dispatchLog) : dispatchLog[j].attempt = k }

\* C1: whenever Run returns a nil error after invoking the task, the last
\* task invocation returned a nil error and Run's value is the value that
\* invocation returned.
C1_NilErrorIsLastSuccess ==
    (Returned /\ err = NoErr /\ taskCalls > 0) =>
        /\ taskLog[taskCalls].e = NoErr
        /\ result = taskLog[taskCalls].v

\* C2: if the policy scope ends while Run is waiting between attempts, Run
\* starts no further attempt and returns the scope's error with the zero
\* value of V.
C2_EndInWaitReturnsScopeError ==
    (Returned /\ EndedInWait) =>
        /\ taskCalls = endedAt.calls
        /\ err \in CtxErrs
        /\ err = ctx.err
        /\ result = ZeroV

\* C3: if the parent scope is already cancelled when Run is called, the
\* task is never invoked, no observer is dispatched, and Run returns the
\* zero value of V with the scope's non-nil error.
C3_CancelledBeforeRun ==
    (Returned /\ endedAt.pc = "idle" /\ parentErr = "Canceled") =>
        /\ taskCalls = 0
        /\ dispatchLog = <<>>
        /\ result = ZeroV
        /\ err \in CtxErrs
        /\ err = ctx.err

C5_OneDispatchPerAttempt ==
    /\ \A j \in 1..Len(dispatchLog) :
         /\ dispatchLog[j].obs = ((j - 1) % r.onAttempts) + 1
         /\ dispatchLog[j].attempt = ((j - 1) \div r.onAttempts) + 1
         /\ dispatchLog[j].attempt <= Len(taskLog)
         /\ dispatchLog[j].attempt <= Len(nextLog)
         /\ dispatchLog[j].a.Next = nextLog[dispatchLog[j].attempt].interval
    /\ pc \in {"timer", "select", "blocked", "loop", "exit", "done"} =>
         \A i \in 1..r.onAttempts :
            Cardinality({ j \in 1..Len(dispatchLog) : dispatchLog[j].obs = i })
               = Len(taskLog)
    /\ Returned =>
         \A i \in 1..r.onAttempts :
            Cardinality({ j \in 1..Len(dispatchLog) : dispatchLog[j].obs = i })
               = taskCalls

\* Run returned after several attempts, each dispatched to every observer
C5_Witness ==
    /\ Returned
    /\ taskCalls = MaxAttempts
    /\ Len(dispatchLog) = MaxAttempts * NumObservers

\* C6: when Run ends because retrying stops, the Attempt dispatched for the
\* last task invocation has Next = 0, and every earlier Attempt has Next
\* equal to the interval the policy returned for it.
C6_FinalNextIsZero ==
    (Returned /\ HowEnded = "stop") =>
        \A j \in 1..Len(dispatchLog) :
            LET k == dispatchLog[j].attempt
            IN  IF k = taskCalls
                THEN dispatchLog[j].a.Next = 0
                ELSE /\ nextLog[k].asked
                     /\ nextLog[k].ok
                     /\ dispatchLog[j].a.Next = nextLog[k].interval

\* Run ended because the policy returned stop, after earlier retries
C6_Witness ==
    /\ Returned
    /\ HowEnded = "stop"
    /\ taskCalls >= 2
    /\ nextLog[taskCalls].asked
    /\ ~nextLog[taskCalls].ok
    /\ Len(dispatchLog) = taskCalls * NumObservers

Before(i) == IF i > 1 THEN trace[i - 1] ELSE "none"

\* C8: the steps of one Run are strictly sequential: a task invocation
\* returns before the policy is consulted, every observer of an attempt
\* returns before the wait starts, a further task invocation starts only
\* after the timer signal of the wait was received, no two task invocations
\* overlap, and Run blocks nowhere but in the wait between attempts.
C8_StepsSequential ==
    /\ \A i \in 1..Len(trace) :
         /\ trace[i] = "taskStart" =>
              /\ Before(i) \in {"newPolicy", "waitTimer"}
              /\ i < Len(trace) => trace[i + 1] = "taskEnd"
         /\ trace[i] = "taskEnd" => Before(i) = "taskStart"
         /\ trace[i] = "checkRetry" => Before(i) = "taskEnd"
         /\ trace[i] = "next" => Before(i) = "checkRetry"
         /\ trace[i] = "onAttempt" => Before(i) \in {"checkRetry", "next", "onAttempt"}
         /\ trace[i] \in {"awaitRetry", "stop"} =>
              /\ i > r.onAttempts
              /\ \A d \in 1..r.onAttempts : trace[i - d] = "onAttempt"
              /\ trace[i - r.onAttempts - 1] \in {"checkRetry", "next"}
         /\ trace[i] \in {"waitTimer", "waitDone"} => Before(i) = "awaitRetry"
         /\ trace[i] \in {"stop", "waitDone", "loopEnd"} => i = Len(trace)
    /\ Cardinality({ i \in 1..Len(trace) : trace[i] = "taskStart" }) = taskCalls
    /\ pc = "task" <=> (trace # <<>> /\ HowEnded = "taskStart")
    /\ pc \in {"timer", "select", "blocked"} <=> (trace # <<>> /\ HowEnded = "awaitRetry")
    /\ Len(timerLog) = Cardinality({ i \in 1..Len(trace) : trace[i] = "awaitRetry" })
                        - (IF pc = "timer" THEN 1 ELSE 0)

\* a second task invocation has started, after the timer signal of a wait
\* in which the select had blocked
C8_Witness ==
    /\ pc = "task"
    /\ taskCalls = 2
    /\ r.timer = "default"
    /\ trace[Len(trace) - 1] = "waitTimer"

\* every task invocation so far failed with an error that warrants a retry
AllFailedRetryable ==
    \A k \in 1..Len(taskLog) : CheckRetry(taskLog[k].v, taskLog[k].e, r.shouldRetry)

\* C9: with a constant or exponential policy with max_retries = n > 0, a
\* task that always fails retryably, and no cancellation or deadline, Run
\* invokes the task exactly n + 1 times and returns the last invocation's
\* error.
C9_MaxRetriesPlusOne ==
    ( /\ Returned
      /\ p.kind \in {"constant", "exponential"}
      /\ p.maxRetries > 0
      /\ AllFailedRetryable
      /\ endedAt.pc = "never" ) =>
        /\ taskCalls = p.maxRetries + 1
        /\ Len(taskLog) = taskCalls
        /\ err = taskLog[taskCalls].e
        /\ err \notin CtxErrs \cup {NoErr}

\* max_retries = 2 gave three attempts, max_retries = 1 two attempts
C9_Witness ==
    /\ Returned
    /\ p.kind \in {"constant", "exponential"}
    /\ p.maxRetries = MaxRetriesBound
    /\ AllFailedRetryable
    /\ endedAt.pc = "never"
    /\ taskCalls = MaxRetriesBound + 1

\* the runner was built without a policy factory, or with a Config whose
\* Interval is <= 0
NoRetryRunner == r.factory = "nil" \/ r.config.Interval <= 0

\* the single attempt of a never-retry Run is what Run returns, and no timer
\* was started
SingleAttemptReturned ==
    /\ taskCalls = 1
    /\ timerLog = <<>>
    /\ result = taskLog[1].v
    /\ err = taskLog[1].e

C11_NonRetryableStops ==
    r.shouldRetry = "nil" =>
        \A k \in 1..Len(taskLog) :
            taskLog[k].e = "wrapNo" =>
                /\ k = Len(taskLog)
                /\ taskCalls = k
                /\ Returned => err = "wrapNo"

\* a retrying policy with retries left, stopped by the first attempt's
\* non-retryable error
C11_Witness ==
    /\ Returned
    /\ r.shouldRetry = "nil"
    /\ r.factory = "Config" /\ r.config.Interval > 0 /\ r.config.MaxRetries = 0
    /\ taskCalls = 1
    /\ taskLog[1].e = "wrapNo"
    /\ err = "wrapNo"
    /\ ctx.err = "Canceled" /\ endedAt.pc = "never"

\* ------------------------------------------- CheckRetry as a pure function
\* the results V passed to CheckRetry
Results == {ZeroV, 1, 2}

\* every variable of Run left as it is before Run is called
RunAtRest ==
    /\ parentErr = NoErr
    /\ ctx = [err |-> NoErr, deadline |-> FALSE]
    /\ p = NilPolicy
    /\ retries = 0
    /\ result = ZeroV
    /\ interval = 0
    /\ a = ZeroAttempt
    /\ obsIdx = 0
    /\ ch = "none"
    /\ wake = "none"
    /\ taskCalls = 0
    /\ taskLog = <<>>
    /\ dispatchLog = <<>>
    /\ nextLog = <<>>
    /\ trace = <<>>
    /\ timerLog = <<>>
    /\ stopCalls = 0
    /\ cancelCalls = 0
    /\ endedAt = [pc |-> "never", calls |-> 0]
    /\ runs = <<>>
    /\ policies = <<>>

\* a runner of which only the predicate matters: NewRunner(WithShouldRetry(s))
PredicateOnly(s) ==
    [factory |-> "nil",
     config |-> [Interval |-> 0, Jitter |-> 0, Multiplier |-> FloatDen,
                 MaxRetries |-> 0, MaxElapsedTime |-> 0, MaxInterval |-> 0],
     shouldRetry |-> s, onAttempts |-> NumObservers, timer |-> "default"]

\* a caller about to evaluate CheckRetry(attemptResult, err, r.shouldRetry)
CheckRetryInit ==
    /\ r \in { PredicateOnly(s) : s \in AllPredicates }
    /\ attemptResult \in Results
    /\ err \in AllErrs
    /\ keepTrying = FALSE
    /\ pc = "checkRetry"
    /\ RunAtRest
    /\ HttpAtRest

\* the call of CheckRetry; keepTrying receives what it returns
CheckRetryCall ==
    /\ pc = "checkRetry"
    /\ pc' = "checked"
    /\ keepTrying' = CheckRetry(attemptResult, err, r.shouldRetry)
    /\ UNCHANGED <<r, runs, policies, httpVars, parentErr, ctx, p, retries, attemptResult,
                   err, result, interval, a, obsIdx, ch, wake, endedAt>>
    /\ UNCHANGED histVars

CheckRetryNext == CheckRetryCall

CheckRetrySpec == CheckRetryInit /\ [][CheckRetryNext]_vars

\* ---------------------------------------------------------------- C12
\* the signal each signal-carrying error of AllErrs is built with, the
\* outermost SetRetryable of its chain
SignalOf ==
    [e \in {"wrapNo", "wrapYes", "fmtNo", "fmtYes", "yesOverNo", "noOverYes"} |->
        e \in {"wrapYes", "fmtYes", "yesOverNo"}]

\* what each predicate of AllPredicates answers for a non-nil error
PredicateAnswer(pr, e) ==
    CASE pr = "always" -> TRUE
      [] pr = "neverRetry" -> FALSE
      [] pr = "isRetryErr" -> e # "e2"

AllAttemptsFailed == \A k \in 1..Len(taskLog) : taskLog[k].e # NoErr

\* C13: a Run that invoked the task returns, when all its attempts failed,
\* a non-nil error along with the zero value of V, and otherwise the value
\* of the final, successful attempt along with a nil error.
C13_ZeroValueWhenAllFail ==
    (Returned /\ taskCalls >= 1) =>
        IF AllAttemptsFailed
        THEN err # NoErr /\ result = ZeroV
        ELSE err = NoErr /\ result = taskLog[Len(taskLog)].v

\* ---------------------------------------------------------------- C14
\* C14: whichever way Run left its loop (the loop test, a stop after an
\* attempt, the end of the scope during the wait), once Run has returned
\* the policy's Cancel has been invoked and the scope handed to the task is
\* ended.
C14_CancelOnEveryExit ==
    Returned =>
        /\ cancelCalls = 1
        /\ ctx.err # NoErr
        /\ HowEnded \in {"loopEnd", "stop", "waitDone"}

\* a Run that stopped after a successful attempt while its scope was still
\* alive: only the deferred Cancel ended the scope
C14_Witness ==
    /\ Returned
    /\ HowEnded = "stop"
    /\ taskCalls = 2
    /\ err = NoErr
    /\ parentErr = NoErr
    /\ endedAt.pc = "never"
    /\ cancelCalls = 1
    /\ ctx.err = "Canceled"

\* ------------------------------------------ two Runs on the same Runner
\* Each Run is followed from its call of newPolicy to its deferred Cancel;
\* an attempt is a step that either ends the Run or fails retryably and
\* asks the Run's policy for the next interval.  The Runs share r and
\* parentCtx, and their steps interleave freely.
RunIds == 1..NumRuns

\* the configurations of the shared runner: no factory, or a Config with a
\* constant or a doubling policy
TwoRunsRunners ==
    { [factory |-> "nil",
       config |-> [Interval |-> 0, Jitter |-> 0, Multiplier |-> FloatDen,
                   MaxRetries |-> 0, MaxElapsedTime |-> 0, MaxInterval |-> 0],
       shouldRetry |-> "nil", onAttempts |-> NumObservers, timer |-> "default"] }
    \cup
    { rn \in
        { [factory |-> "Config",
           config |-> [Interval |-> 2, Jitter |-> 0, Multiplier |-> m,
                       MaxRetries |-> n, MaxElapsedTime |-> t, MaxInterval |-> 0],
           shouldRetry |-> "nil", onAttempts |-> NumObservers,
           timer |-> "default"] :
             m \in {FloatDen, 2 * FloatDen}, n \in 0..MaxRetriesBound,
             t \in {0, 1} } :
        rn.config.Multiplier > FloatDen =>
            (rn.config.MaxRetries = MaxRetriesBound /\ rn.config.MaxElapsedTime = 0) }

\* a Run before it is called
IdleRun == [st |-> "idle", h |-> 0, asks |-> 0, log |-> <<>>]

TwoRunsInit ==
    /\ r \in TwoRunsRunners
    /\ runs = [i \in RunIds |-> IdleRun]
    /\ policies = <<>>
    /\ parentErr = NoErr
    /\ ctx = [err |-> NoErr, deadline |-> FALSE]
    /\ p = NilPolicy
    /\ pc = "idle"
    /\ retries = 0
    /\ attemptResult = ZeroV
    /\ err = NoErr
    /\ result = ZeroV
    /\ interval = 0
    /\ keepTrying = FALSE
    /\ a = ZeroAttempt
    /\ obsIdx = 0
    /\ ch = "none"
    /\ wake = "none"
    /\ taskCalls = 0
    /\ taskLog = <<>>
    /\ dispatchLog = <<>>
    /\ nextLog = <<>>
    /\ trace = <<>>
    /\ timerLog = <<>>
    /\ stopCalls = 0
    /\ cancelCalls = 0
    /\ endedAt = [pc |-> "never", calls |-> 0]
    /\ HttpAtRest

\* the variables of a single Run, unused while two Runs are followed
oneRunVars == <<ctx, p, pc, retries, attemptResult, err, result, interval,
                keepTrying, a, obsIdx, ch, wake, endedAt, httpVars>>

\* a Run that takes the first Policy the factory ever made
RunPolicyShared(created) == 1

\* the Policy held by the local p of Run: the one newPolicy just returned
RunPolicy(created) == created

\* Run calls r.newPolicy(parentCtx) and keeps the Policy in its local p
TwoRunsStart(i) ==
    /\ runs[i].st = "idle"
    /\ policies' = Append(policies, [p |-> RunnerNewPolicy(r),
                                      ctx |-> NewPolicyCtx(r, parentErr)])
    /\ runs' = [runs EXCEPT ![i] = [st |-> "running",
                                     h |-> RunPolicy(Len(policies) + 1),
                                     asks |-> @.asks + 1, log |-> <<>>]]
    /\ UNCHANGED <<r, parentErr>>
    /\ UNCHANGED oneRunVars
    /\ UNCHANGED histVars

\* the loop test of Run finds the Run's scope ended
TwoRunsLoopEnd(i) ==
    /\ runs[i].st = "running"
    /\ policies[runs[i].h].ctx.err # NoErr
    /\ runs' = [runs EXCEPT ![i].st = "exit"]
    /\ UNCHANGED <<r, parentErr, policies>>
    /\ UNCHANGED oneRunVars
    /\ UNCHANGED histVars

\* an attempt of the Run fails retryably: handleAttempt calls p.Next(), and
\* the Run goes on when Next returns true
TwoRunsRetry(i) ==
    /\ runs[i].st = "running"
    /\ Len(runs[i].log) < MaxAttempts
    /\ LET h == runs[i].h
           pol == policies[h]
       IN  \E rnd \in RandChoices(pol.p, pol.ctx.err) :
             LET nx == PolicyNext(pol.p, pol.ctx.err, rnd)
             IN  /\ policies' = [policies EXCEPT ![h].p = nx.p]
                 /\ runs' = [runs EXCEPT
                       ![i].log = Append(@, [ok |-> nx.ok,
                                             alive |-> pol.ctx.err = NoErr]),
                       ![i].st = IF nx.ok THEN "running" ELSE "exit"]
    /\ UNCHANGED <<r, parentErr>>
    /\ UNCHANGED oneRunVars
    /\ UNCHANGED histVars

\* an attempt of the Run succeeds, or fails with an error not to be retried
TwoRunsStop(i) ==
    /\ runs[i].st = "running"
    /\ runs' = [runs EXCEPT ![i].st = "exit"]
    /\ UNCHANGED <<r, parentErr, policies>>
    /\ UNCHANGED oneRunVars
    /\ UNCHANGED histVars

\* Run returns: the deferred p.Cancel() runs on the Run's policy
TwoRunsReturn(i) ==
    /\ runs[i].st = "exit"
    /\ LET h == runs[i].h
       IN  policies' = [policies EXCEPT
                          ![h].ctx = CancelCtx(policies[h].p, @),
                          ![h].p = PolicyCancel(@)]
    /\ runs' = [runs EXCEPT ![i].st = "done"]
    /\ UNCHANGED <<r, parentErr>>
    /\ UNCHANGED oneRunVars
    /\ UNCHANGED histVars

\* parentCtx ends; every child context still alive ends with its error
TwoRunsEndParent ==
    /\ parentErr = NoErr
    /\ \E e \in CtxErrs :
         /\ parentErr' = e
         /\ policies' = [h \in DOMAIN policies |->
                           IF policies[h].ctx.err = NoErr
                           THEN [policies[h] EXCEPT !.ctx.err = e]
                           ELSE policies[h]]
    /\ UNCHANGED <<r, runs>>
    /\ UNCHANGED oneRunVars
    /\ UNCHANGED histVars

\* the MaxElapsedTime deadline of one policy's context passes
TwoRunsDeadline ==
    /\ \E h \in DOMAIN policies :
         /\ policies[h].ctx.deadline
         /\ policies[h].ctx.err = NoErr
         /\ policies' = [policies EXCEPT ![h].ctx.err = "DeadlineExceeded"]
    /\ UNCHANGED <<r, parentErr, runs>>
    /\ UNCHANGED oneRunVars
    /\ UNCHANGED histVars

TwoRunsNext ==
    \/ \E i \in RunIds : TwoRunsStart(i)
    \/ \E i \in RunIds : TwoRunsLoopEnd(i)
    \/ \E i \in RunIds : TwoRunsRetry(i)
    \/ \E i \in RunIds : TwoRunsStop(i)
    \/ \E i \in RunIds : TwoRunsReturn(i)
    \/ TwoRunsEndParent
    \/ TwoRunsDeadline

TwoRunsSpec == TwoRunsInit /\ [][TwoRunsNext]_vars

\* ---------------------------------------------------------------- C15
\* the Runs that have called newPolicy
StartedRuns == { i \in RunIds : runs[i].st # "idle" }

\* what the k-th Next of a fresh policy of r returns while its scope is alive
FreshPolicyAllows(k) ==
    /\ r.factory = "Config"
    /\ r.config.Interval > 0
    /\ (r.config.MaxRetries = 0 \/ k <= r.config.MaxRetries)

\* C15: every Run asks the factory for exactly one new Policy, and Runs on
\* the same Runner, in sequence or interleaved, are isolated: each Run gets
\* the retries of a fresh policy whatever the others have consumed, and a
\* Run's scope ends only by the parent's end, its own deadline, or its own
\* Cancel on exit.
C15_RunsIsolated ==
    /\ Len(policies) = Cardinality(StartedRuns)
    /\ \A i \in StartedRuns :
         /\ runs[i].asks = 1
         /\ \A k \in 1..Len(runs[i].log) :
               runs[i].log[k].alive => (runs[i].log[k].ok <=> FreshPolicyAllows(k))
         /\ policies[runs[i].h].ctx.err # NoErr =>
               \/ parentErr # NoErr
               \/ runs[i].st = "done"
               \/ policies[runs[i].h].ctx.err = "DeadlineExceeded"

\* Run 2 started first and is still retrying with its scope alive after
\* Run 1, interleaved with it, used up its retries and cancelled its policy
C15_Witness ==
    /\ r.factory = "Config" /\ r.config.MaxRetries = 1
    /\ runs[2].h = 1 /\ runs[1].h = 2
    /\ runs[1].st = "done"
    /\ Len(runs[1].log) = 2 /\ ~runs[1].log[2].ok
    /\ policies[2].ctx.err = "Canceled"
    /\ runs[2].st = "running"
    /\ Len(runs[2].log) = 1 /\ runs[2].log[1].ok
    /\ policies[1].ctx.err = NoErr
    /\ parentErr = NoErr

\* ------------------------------------- a Policy driven directly by a caller
\* The caller builds one policy with Config.NewPolicy(parentCtx) and then
\* calls Next and Cancel on it in any order, while parentCtx may end and the
\* MaxElapsedTime deadline may pass.  p and ctx are the policy and its
\* context, interval and keepTrying what the last Next returned, nextLog
\* every result of Next in order.

\* the Config values the caller builds the policy from
PolicyConfigs ==
    \* never
    { [Interval |-> 0, Jitter |-> 0, Multiplier |-> FloatDen, MaxRetries |-> n,
       MaxElapsedTime |-> 0, MaxInterval |-> 0] : n \in {0, MaxRetriesBound} }
    \cup
    \* constant
    { [Interval |-> 2, Jitter |-> 0, Multiplier |-> FloatDen, MaxRetries |-> n,
       MaxElapsedTime |-> t, MaxInterval |-> 0] :
         n \in 0..MaxRetriesBound, t \in {0, 1} }
    \cup
    \* exponential without jitter
    { [Interval |-> i, Jitter |-> 0, Multiplier |-> m, MaxRetries |-> n,
       MaxElapsedTime |-> 0, MaxInterval |-> x] :
         i \in {1, 2, 5}, m \in {FloatDen + 1, 2 * FloatDen},
         n \in 0..MaxRetriesBound, x \in {0, 3} }
    \cup
    \* exponential with jitter below, at and above 1.0
    { c \in { [Interval |-> 2, Jitter |-> j, Multiplier |-> m, MaxRetries |-> n,
               MaxElapsedTime |-> 0, MaxInterval |-> x] :
                 j \in {1, FloatDen, FloatDen + 1}, m \in {FloatDen, 2 * FloatDen},
                 n \in {0, MaxRetriesBound}, x \in {0, 3} } :
        c.Multiplier > FloatDen => c.MaxInterval > 0 }

PolicyInit ==
    /\ r \in { [factory |-> "Config", config |-> c, shouldRetry |-> "nil",
                onAttempts |-> NumObservers, timer |-> "default"] :
                 c \in PolicyConfigs }
    /\ parentErr = NoErr
    /\ ctx = NewPolicyCtx(r, NoErr)
    /\ p = NewPolicy(r.config)
    /\ pc = "policy"
    /\ retries = 0
    /\ attemptResult = ZeroV
    /\ err = NoErr
    /\ result = ZeroV
    /\ interval = 0
    /\ keepTrying = FALSE
    /\ a = ZeroAttempt
    /\ obsIdx = 0
    /\ ch = "none"
    /\ wake = "none"
    /\ taskCalls = 0
    /\ taskLog = <<>>
    /\ dispatchLog = <<>>
    /\ nextLog = <<>>
    /\ trace = <<>>
    /\ timerLog = <<>>
    /\ stopCalls = 0
    /\ cancelCalls = 0
    /\ endedAt = [pc |-> "never", calls |-> 0]
    /\ runs = <<>>
    /\ policies = <<>>
    /\ HttpAtRest

\* the caller calls p.Next()
PolicyNextCall ==
    /\ pc = "policy"
    /\ Len(nextLog) < MaxNextCalls
    /\ \E rnd \in RandChoices(p, ctx.err) :
         LET nx == PolicyNext(p, ctx.err, rnd)
         IN  /\ p' = nx.p
             /\ interval' = nx.interval
             /\ keepTrying' = nx.ok
             /\ nextLog' = Append(nextLog, [asked |-> TRUE,
                                            interval |-> nx.interval,
                                            ok |-> nx.ok, rnd |-> rnd,
                                            base |-> nx.p.previous])
    /\ UNCHANGED <<r, runs, policies, httpVars, parentErr, ctx, pc, retries, attemptResult,
                   err, result, a, obsIdx, ch, wake, endedAt>>
    /\ UNCHANGED <<taskCalls, taskLog, dispatchLog, trace, timerLog, stopCalls,
                   cancelCalls>>

\* the caller calls p.Cancel()
PolicyCancelCall ==
    /\ pc = "policy"
    /\ cancelCalls < MaxCancelCalls
    /\ ctx' = CancelCtx(p, ctx)
    /\ p' = PolicyCancel(p)
    /\ cancelCalls' = cancelCalls + 1
    /\ UNCHANGED <<r, runs, policies, httpVars, parentErr, pc, runVars, ch, wake, endedAt>>
    /\ UNCHANGED <<taskCalls, taskLog, dispatchLog, nextLog, trace, timerLog,
                   stopCalls>>

PolicyStep ==
    \/ PolicyNextCall
    \/ PolicyCancelCall
    \/ EndParent
    \/ DeadlineExpire

PolicySpec == PolicyInit /\ [][PolicyStep]_vars

\* ---------------------------------------------------------------- C16
\* the step is a call of Next
IsNextCall == Len(nextLog') = Len(nextLog) + 1
\* the step is a call of Cancel
IsCancelCall == cancelCalls' = cancelCalls + 1

\* C16: for each policy variant, a Next called once the scope has ended (by
\* Cancel, by the parent's end or by the deadline) returns (0, false)
\* whatever retries remain; a Cancel ends the scope, and a Cancel after the
\* first changes nothing.
C16_EndedScopeStopsNext ==
    [][ /\ (IsNextCall /\ ctx.err # NoErr) =>
              (interval' = 0 /\ keepTrying' = FALSE /\ p' = p)
        /\ IsCancelCall => ctx'.err # NoErr
        /\ (IsCancelCall /\ cancelCalls >= 1) => (ctx' = ctx /\ p' = p)
      ]_vars

\* a policy with unlimited retries handed out an interval, was cancelled
\* twice, and then refused
C16_Witness ==
    /\ pc = "policy"
    /\ r.config.Interval > 0 /\ r.config.MaxRetries = 0
    /\ r.config.Multiplier > FloatDen
    /\ cancelCalls = 2
    /\ ctx.err = "Canceled" /\ parentErr = NoErr
    /\ Len(nextLog) = 2
    /\ nextLog[1].ok /\ nextLog[1].interval > 0
    /\ ~nextLog[2].ok /\ nextLog[2].interval = 0

\* ---------------------------------------------------------------- C17
\* C17: for every policy Config builds and every value of its fields and of
\* the random source, each Next returns a strictly positive duration exactly
\* when it returns true, and exactly 0 when it returns false.
C17_PositiveIffTrue ==
    \A k \in 1..Len(nextLog) :
        /\ nextLog[k].ok <=> nextLog[k].interval > 0
        /\ ~nextLog[k].ok => nextLog[k].interval = 0

\* ---------------------------------------------------------------- C18
\* the Config makes NewPolicy build an exponential policy
ExponentialConfig ==
    /\ r.config.Interval > 0
    /\ (r.config.Jitter > 0 \/ r.config.Multiplier > FloatDen)

ConstantConfig ==
    /\ r.config.Interval > 0
    /\ r.config.Jitter <= 0
    /\ r.config.Multiplier <= FloatDen

\* C19: while the scope of a constant policy has not ended, with
\* max_retries = n > 0 its first n calls of Next return (interval, true) and
\* every later call (0, false); with max_retries = 0 every call returns
\* (interval, true).
C19_ConstantCountsRetries ==
    (ConstantConfig /\ ctx.err = NoErr) =>
        \A k \in 1..Len(nextLog) :
            IF r.config.MaxRetries = 0 \/ k <= r.config.MaxRetries
            THEN nextLog[k].ok /\ nextLog[k].interval = r.config.Interval
            ELSE ~nextLog[k].ok /\ nextLog[k].interval = 0

\* a constant policy with one retry, asked three times with its scope alive
C19_Witness ==
    /\ ConstantConfig
    /\ r.config.MaxRetries = 1
    /\ ctx.err = NoErr
    /\ Len(nextLog) = 3
    /\ nextLog[1].ok /\ nextLog[1].interval = r.config.Interval
    /\ ~nextLog[2].ok /\ ~nextLog[3].ok

\* ---------------------------------------------------------------- C20
\* b to the power e
RECURSIVE Pow(_, _)
Pow(b, e) == IF e = 0 THEN 1 ELSE b * Pow(b, e - 1)

\* d multiplied j times by num / FloatDen, truncated after every product
RECURSIVE IterMul(_, _, _)
IterMul(d, num, j) == IF j = 0 THEN d ELSE MulFloat(IterMul(d, num, j - 1), num)

\* an exponential policy with multiplier > 1.0, no jitter, no max_interval
GrowingConfig ==
    /\ r.config.Interval > 0
    /\ r.config.Multiplier > FloatDen
    /\ r.config.Jitter = 0
    /\ r.config.MaxInterval = 0

\* the k-th call of Next is within max_retries
WithinRetries(k) == r.config.MaxRetries = 0 \/ k <= r.config.MaxRetries

\* C20 as stated: for an exponential policy with multiplier > 1.0, jitter 0
\* and max_interval 0 whose scope is alive, the call of Next number k
\* (counted from 0) returns exactly initial x multiplier^k until max_retries
\* stops it.
C20_ExactPowers ==
    (GrowingConfig /\ ctx.err = NoErr) =>
        \A k \in 1..Len(nextLog) :
            IF WithinRetries(k)
            THEN /\ nextLog[k].ok
                 /\ nextLog[k].interval * Pow(FloatDen, k - 1)
                      = r.config.Interval * Pow(r.config.Multiplier, k - 1)
            ELSE ~nextLog[k].ok /\ nextLog[k].interval = 0

\* C20 amended: the call of Next number k (counted from 0) returns the
\* initial interval multiplied k times by the multiplier with the product
\* truncated to a whole duration each time, which is exactly
\* initial x multiplier^k when the multiplier is a whole number, until
\* max_retries or the end of the scope stops it.
C20_IteratedProduct ==
    (GrowingConfig /\ ctx.err = NoErr) =>
        \A k \in 1..Len(nextLog) :
            IF WithinRetries(k)
            THEN /\ nextLog[k].ok
                 /\ nextLog[k].interval
                      = IterMul(r.config.Interval, r.config.Multiplier, k - 1)
                 /\ r.config.Multiplier % FloatDen = 0 =>
                      nextLog[k].interval
                        = r.config.Interval
                            * Pow(r.config.Multiplier \div FloatDen, k - 1)
            ELSE ~nextLog[k].ok /\ nextLog[k].interval = 0

\* a fractional multiplier whose second product was truncated
C20_Witness ==
    /\ GrowingConfig
    /\ r.config.Interval = 5
    /\ r.config.Multiplier = FloatDen + 1
    /\ r.config.MaxRetries = 0
    /\ ctx.err = NoErr
    /\ Len(nextLog) = 3
    /\ nextLog[1].interval = 5
    /\ nextLog[2].interval * FloatDen # 5 * r.config.Multiplier
    /\ nextLog[3].ok /\ nextLog[3].interval > nextLog[2].interval

\* ---------------------------------------------------------------- C21
\* the intervals the k-th Next of the policy of r.config with MaxInterval
\* set to 0 can return: the base grown k - 1 times, jittered, never clamped
UnclampedIntervals(k) ==
    LET m == IF r.config.Multiplier > FloatDen THEN r.config.Multiplier
             ELSE FloatDen
        base == IterMul(r.config.Interval, m, k - 1)
        delta == MulFloat(base, r.config.Jitter)
    IN  IF r.config.Jitter > 0
        THEN { base - delta + rnd : rnd \in 0..(2 * delta) }
        ELSE { base }

\* C21: for a Config that yields an exponential policy, a MaxInterval
\* smaller than Interval is ignored: every interval Next returns is one the
\* same Config with MaxInterval = 0 returns for that call.
C21_SmallMaxIntervalIgnored ==
    (ExponentialConfig /\ r.config.MaxInterval > 0
       /\ r.config.MaxInterval < r.config.Interval) =>
        \A k \in 1..Len(nextLog) :
            nextLog[k].ok => nextLog[k].interval \in UnclampedIntervals(k)

\* ---------------------------------------------------------------- C22
\* C22: the Attempt dispatched after the k-th task invocation (k = 0 for the
\* first) has Retries = k, the value and error that invocation returned,
\* and the policy's context, the same context the task was passed.
C22_AttemptMatchesInvocation ==
    \A j \in 1..Len(dispatchLog) :
        LET d == dispatchLog[j]
            t == taskLog[d.attempt]
        IN  /\ d.a.Retries = d.attempt - 1
            /\ d.a.Result = t.v
            /\ d.a.Err = t.e
            /\ d.a.Context = PolicyContext(p)
            /\ d.a.Context = t.ctx

\* the third invocation succeeded after two retries and was dispatched
C22_Witness ==
    \E j \in 1..Len(dispatchLog) :
        /\ dispatchLog[j].attempt = 3
        /\ dispatchLog[j].a.Retries = 2
        /\ dispatchLog[j].a.Result = 1
        /\ dispatchLog[j].a.Err = NoErr
        /\ taskLog[2].e = "e1"
        /\ dispatchLog[j].a.Context = "policyCtx"

\* ---------------------------------------------------------------- C23
\* how many times a step occurs in the trace of the Run
CountInTrace(step) == Cardinality({ i \in 1..Len(trace) : trace[i] = step })

\* C23: every wait between attempts starts exactly one timer, with the
\* interval the policy returned for the attempt before it; every started
\* wait has ended in one way or is still going on; the stop function has
\* been called once per wait ended by the scope and never for a wait ended
\* by the timer's signal.
C23_OneTimerPerWait ==
    /\ Len(timerLog) = CountInTrace("awaitRetry") - (IF pc = "timer" THEN 1 ELSE 0)
    /\ \A i \in 1..Len(timerLog) :
          nextLog[i].ok /\ timerLog[i] = nextLog[i].interval
    /\ Len(timerLog) = CountInTrace("waitTimer") + CountInTrace("waitDone")
                         + (IF pc \in {"select", "blocked"} THEN 1 ELSE 0)
    /\ stopCalls = CountInTrace("waitDone")
    /\ CountInTrace("waitDone") <= 1

\* a Run with a real timer whose first wait ended by the timer and whose
\* second wait ended by the scope
C23_Witness ==
    /\ Returned
    /\ r.timer = "default"
    /\ Len(timerLog) = 2
    /\ CountInTrace("waitTimer") = 1
    /\ HowEnded = "waitDone"
    /\ stopCalls = 1
    /\ timerLog[2] > timerLog[1]

\* ------------------------------------------------------ retryhttp.Client.Do
\* One call of Client.Do.  With a runner, Do is runner.Run over the task of
\* newTask, so the steps of Run are the actions of Spec, the task is
\* HttpTask and a callback is HttpDispatch; V is *http.Response, modelled by
\* its status code, ZeroV being the nil response.  Without a runner Do is
\* the single step HttpDoDirect.

\* what HTTPClient.Do returns: a response (with a body), an error, or, as
\* the interface allows, a response together with an error
HttpOutcomes ==
    { [v |-> 200, e |-> "nil"], [v |-> 429, e |-> "nil"],
      [v |-> ZeroV, e |-> "tempYes"], [v |-> 429, e |-> "tempYes"] }

\* the Requester lists explored: a Requester of kind "header" changes the
\* request and leaves its Body alone, one of kind "body" also sets the Body
RequesterLists ==
    { <<>>, <<"header">>, <<"header", "body">>, <<"body", "header">> }

\* the Clients explored and, in getBody, the GetBody of the original request:
\* nil, returning a body, or returning an error; cleanupAt is the position of
\* CleanupResponse among the runner's OnAttempt callbacks, 0 when the caller
\* did not register it
Clients ==
    { [runner |-> rn, requesters |-> rq, getBody |-> g, cleanupAt |-> c] :
        rn \in BOOLEAN, rq \in RequesterLists, g \in {"none", "ok", "fail"},
        c \in 0..NumObservers }

\* the runners given to WithRunner: a constant policy, the predicate of
\* WithShouldRetry(429)
HttpRunners ==
    { [factory |-> "Config",
       config |-> [Interval |-> 2, Jitter |-> 0, Multiplier |-> FloatDen,
                   MaxRetries |-> n, MaxElapsedTime |-> d, MaxInterval |-> 0],
       shouldRetry |-> "http429", onAttempts |-> NumObservers, timer |-> t] :
         n \in {1, MaxRetriesBound}, d \in {0, 5}, t \in Timers }

HttpInit ==
    /\ r \in HttpRunners
    /\ client \in Clients
    /\ ~client.runner =>
         /\ r.config.MaxRetries = 1 /\ r.config.MaxElapsedTime = 0
         /\ r.timer = "default" /\ client.cleanupAt = 0
    /\ bodies = <<>>
    /\ reqLog = <<>>
    /\ readers = <<>>
    /\ handles = <<>>
    /\ build = NoBuild
    /\ pc = "idle"
    /\ RunAtRest
    /\ attemptResult = ZeroV
    /\ err = NoErr
    /\ keepTrying = FALSE

\* a Requester applied to a request: the request it returns
ApplyRequester(kind, i, req) ==
    [req EXCEPT !.marks = Append(@, i),
                !.body = IF kind = "body" THEN "requester" ELSE @]

\* for _, r := range c.requesters { request = r(request) }: the requests
\* each Requester received, then the request the last one returned
RECURSIVE RangeRequesters(_, _, _)
RangeRequesters(rqs, i, req) ==
    IF i > Len(rqs) THEN <<req>>
    ELSE <<req>> \o RangeRequesters(rqs, i + 1, ApplyRequester(rqs[i], i, req))

\* a loop that hands the first request to every Requester
ApplyRequestersOnFirst(rqs, req) ==
    <<req>> \o [i \in 1..Len(rqs) |-> ApplyRequester(rqs[i], i, req)]

\* the loop over c.requesters, from the first Requester on
ApplyRequesters(rqs, req) == RangeRequesters(rqs, 1, req)

\* a task that calls GetBody even when a Requester set the Body
NeedsGetBodyAlways(req, getBody) == getBody # "none"

\* request.Body == nil && getBody != nil
NeedsGetBody(req, getBody) == req.body = "nil" /\ getBody # "none"

\* the closure of newTask up to c.hc.Do: the request sent, the requests the
\* Requesters received, the calls of getBody and the error of getBody
BuildRequest(ctxId) ==
    LET start == [ctx |-> ctxId, marks |-> <<>>, body |-> "nil"]
        chain == ApplyRequesters(client.requesters, start)
        last == chain[Len(chain)]
        calls == IF NeedsGetBody(last, client.getBody) THEN 1 ELSE 0
        failed == calls = 1 /\ client.getBody = "fail"
    IN  [start |-> start,
         got |-> SubSeq(chain, 1, Len(chain) - 1),
         request |-> IF calls = 1 /\ ~failed
                     THEN [last EXCEPT !.body = "getBody"] ELSE last,
         getBodyCalls |-> calls,
         err |-> IF failed THEN "getBodyErr" ELSE NoErr]

\* a response body as the HTTPClient returns it: unread, open, referenced
NewBody(k) == [attempt |-> k, drained |-> FALSE, closed |-> FALSE, ref |-> TRUE]

\* the index in bodies of the body of the current attempt's response, 0
\* when the attempt produced none
BodyOf(k) ==
    IF \E i \in 1..Len(bodies) : bodies[i].attempt = k
    THEN CHOOSE i \in 1..Len(bodies) : bodies[i].attempt = k
    ELSE 0

\* response, err = task(taskCtx) for the task of Client.newTask
HttpTask ==
    /\ pc = "task"
    /\ LET b == BuildRequest(PolicyContext(p))
       IN  IF b.err # NoErr
           THEN /\ attemptResult' = ZeroV
                /\ err' = b.err
                /\ reqLog' = Append(reqLog, [b EXCEPT !.err = "getBodyErr"]
                                              @@ [sent |-> FALSE])
                /\ taskLog' = Append(taskLog, [v |-> ZeroV, e |-> b.err,
                                               ctx |-> PolicyContext(p)])
                /\ UNCHANGED bodies
           ELSE \E o \in HttpOutcomes :
                  /\ attemptResult' = o.v
                  /\ err' = o.e
                  /\ reqLog' = Append(reqLog, b @@ [sent |-> TRUE])
                  /\ taskLog' = Append(taskLog, [v |-> o.v, e |-> o.e,
                                                 ctx |-> PolicyContext(p)])
                  /\ bodies' = IF o.v # ZeroV
                               THEN Append(bodies, NewBody(taskCalls))
                               ELSE bodies
    /\ pc' = "handle"
    /\ trace' = Append(trace, "taskEnd")
    /\ UNCHANGED <<r, runs, policies, client, readers, handles, build, parentErr, ctx, p,
                   retries, result, interval, keepTrying, a, obsIdx, ch, wake,
                   taskCalls, dispatchLog, nextLog, timerLog, stopCalls,
                   cancelCalls, endedAt>>

\* what a callback finds in a.Result and a.Result.Body
BodySeen(k) ==
    IF a.Result = ZeroV THEN "nilResponse"
    ELSE IF ~bodies[BodyOf(k)].ref THEN "nilBody"
    ELSE IF bodies[BodyOf(k)].closed THEN "closed"
    ELSE IF bodies[BodyOf(k)].drained THEN "drained"
    ELSE "unread"

\* a CleanupResponse that also cleans up the last attempt
CleansUpAlways(at, scopeErr, k) == at.Result # ZeroV /\ bodies[BodyOf(k)].ref

\* the condition of CleanupResponse:
\* !a.Done() && a.Result != nil && a.Result.Body != nil
CleansUp(at, scopeErr, k) ==
    /\ ~Done(at, scopeErr)
    /\ at.Result # ZeroV
    /\ bodies[BodyOf(k)].ref

\* a cleanup that keeps the reference to the body it closed
CleanupResponseKeepsBody(at, scopeErr, k) ==
    IF CleansUp(at, scopeErr, k)
    THEN [bodies EXCEPT ![BodyOf(k)] =
            [@ EXCEPT !.drained = TRUE, !.closed = TRUE]]
    ELSE bodies

\* io.Copy(io.Discard, a.Result.Body); a.Result.Body.Close();
\* a.Result.Body = nil
CleanupResponse(at, scopeErr, k) ==
    IF CleansUp(at, scopeErr, k)
    THEN [bodies EXCEPT ![BodyOf(k)] =
            [@ EXCEPT !.drained = TRUE, !.closed = TRUE, !.ref = FALSE]]
    ELSE bodies

\* one iteration of: for _, f := range r.onAttempts { f(a) }, where the
\* callback at client.cleanupAt is CleanupResponse and the others only look
HttpDispatch ==
    /\ pc = "dispatch"
    /\ obsIdx <= r.onAttempts
    /\ dispatchLog' = Append(dispatchLog,
                        [obs |-> obsIdx, attempt |-> taskCalls, a |-> a,
                         done |-> Done(a, ctx.err),
                         seen |-> BodySeen(taskCalls)])
    /\ bodies' = IF obsIdx = client.cleanupAt
                 THEN CleanupResponse(a, ctx.err, taskCalls)
                 ELSE bodies
    /\ trace' = Append(trace, "onAttempt")
    /\ obsIdx' = NextObserver(obsIdx)
    /\ UNCHANGED <<r, runs, policies, client, reqLog, readers, handles, build,
                   parentErr, ctx, p, pc, retries, attemptResult, err, result,
                   interval, keepTrying, a, ch, wake, taskCalls, taskLog,
                   nextLog, timerLog, stopCalls, cancelCalls, endedAt>>

\* Client.Do with a runner: c.runner.Run(request.Context(), c.newTask(request))
HttpDoRun ==
    /\ client.runner
    /\ RunStart

\* Client.Do without a runner: the Requesters are applied to the caller's
\* request, then c.hc.Do(request)
HttpDoDirect ==
    /\ pc = "idle"
    /\ ~client.runner
    /\ LET start == [ctx |-> "requestCtx", marks |-> <<>>, body |-> "original"]
           chain == ApplyRequesters(client.requesters, start)
       IN  \E o \in HttpOutcomes :
             /\ result' = o.v
             /\ err' = o.e
             /\ reqLog' = Append(reqLog,
                   [start |-> start,
                    got |-> SubSeq(chain, 1, Len(chain) - 1),
                    request |-> chain[Len(chain)],
                    getBodyCalls |-> 0, err |-> NoErr, sent |-> TRUE])
             /\ bodies' = IF o.v # ZeroV THEN Append(bodies, NewBody(1))
                          ELSE bodies
    /\ taskCalls' = 1
    /\ pc' = "done"
    /\ trace' = Append(trace, "direct")
    /\ UNCHANGED <<r, runs, policies, client, readers, handles, build, parentErr, ctx,
                   p, retries, attemptResult, interval, keepTrying, a, obsIdx,
                   ch, wake, taskLog, dispatchLog, nextLog, timerLog, stopCalls,
                   cancelCalls, endedAt>>

HttpNext ==
    \/ EndParent
    \/ DeadlineExpire
    \/ TimerFire
    \/ HttpDoRun
    \/ HttpDoDirect
    \/ LoopCheck
    \/ HttpTask
    \/ HandleAttempt
    \/ HttpDispatch
    \/ AfterAttempt
    \/ TimerStart
    \/ Select
    \/ Wakeup
    \/ Return

HttpSpec == HttpInit /\ [][HttpNext]_vars

\* ------------------------------------------------------------------ C24
\* Client.Do has returned
DoReturned == pc = "done"

\* the body of the response Do returns
IsReturnedBody(i) == result # ZeroV /\ bodies[i].attempt = taskCalls

\* C24: with CleanupResponse registered on the runner, when Client.Do
\* returns, every response body the HTTPClient produced during the call is
\* drained and closed, except the body of the returned response, which is
\* unread and open.
C24_NoBodyLeftOpen ==
    (DoReturned /\ client.runner /\ client.cleanupAt > 0) =>
        \A i \in 1..Len(bodies) :
            IF IsReturnedBody(i)
            THEN ~bodies[i].drained /\ ~bodies[i].closed /\ bodies[i].ref
            ELSE bodies[i].drained /\ bodies[i].closed

\* ------------------------------------------------------------------ C25
\* the callbacks of the runner other than CleanupResponse
IsUserObserver(d) == d.obs # client.cleanupAt

\* the entry of dispatchLog for CleanupResponse on the attempt of entry d
CleanupEntryOf(d) ==
    { e \in { dispatchLog[j] : j \in 1..Len(dispatchLog) } :
        e.attempt = d.attempt /\ e.obs = client.cleanupAt }

\* C25 as stated: with a runner that retries, the response of every
\* intermediate attempt is cleaned up whether or not the caller registered
\* CleanupResponse, and only after every other callback has seen its body
\* non-nil and unread.
C25_CleanupInstalledLast ==
    client.runner =>
        /\ \A i \in 1..Len(bodies) :
              bodies[i].attempt < taskCalls =>
                  bodies[i].drained /\ bodies[i].closed
        /\ \A j \in 1..Len(dispatchLog) :
              (IsUserObserver(dispatchLog[j]) /\ dispatchLog[j].a.Result # ZeroV)
                  => dispatchLog[j].seen = "unread"

\* C25 amended: a body is cleaned up only by a CleanupResponse the caller
\* registered, at its position among the callbacks and only for an attempt
\* that is not done when it is called; the callbacks before it see the body
\* unread, the callbacks after it see no body when it cleaned up and the
\* unread body when it did not.
C25_CleanupWhereRegistered ==
    client.runner =>
        /\ \A j \in 1..Len(dispatchLog) :
              LET d == dispatchLog[j]
              IN  d.a.Result # ZeroV =>
                    d.seen = IF \E e \in CleanupEntryOf(d) :
                                   e.obs < d.obs /\ ~e.done
                             THEN "nilBody" ELSE "unread"
        /\ \A i \in 1..Len(bodies) :
              (bodies[i].drained \/ bodies[i].closed \/ ~bodies[i].ref) =>
                  /\ client.cleanupAt > 0
                  /\ bodies[i].drained /\ bodies[i].closed /\ ~bodies[i].ref
                  /\ \E j \in 1..Len(dispatchLog) :
                        /\ dispatchLog[j].attempt = bodies[i].attempt
                        /\ dispatchLog[j].obs = client.cleanupAt
                        /\ ~dispatchLog[j].done

\* a callback registered after CleanupResponse found the body gone, and on
\* a later, final attempt found it unread
C25_Witness ==
    /\ client.runner
    /\ client.cleanupAt = 1
    /\ \E j, k \in 1..Len(dispatchLog) :
          /\ dispatchLog[j].obs = 2 /\ dispatchLog[j].seen = "nilBody"
          /\ dispatchLog[k].obs = 2 /\ dispatchLog[k].seen = "unread"
          /\ dispatchLog[k].attempt > dispatchLog[j].attempt

\* ------------------------------------------------------------------ C26
\* the marks the Requesters 1..n leave on a request, in insertion order
MarksUpTo(n) == [j \in 1..n |-> j]

\* C26: in every attempt of a Client, with or without a runner, each
\* configured Requester is applied exactly once and in insertion order,
\* each receives the request the previous one returned, and the request the
\* HTTPClient is invoked with is the one the last Requester returned.
C26_RequestersInOrder ==
    \A k \in 1..Len(reqLog) :
        LET e == reqLog[k]
            n == Len(client.requesters)
        IN  /\ Len(e.got) = n
            /\ n > 0 => e.got[1] = e.start
            /\ \A i \in 1..n :
                  /\ e.got[i].marks = MarksUpTo(i - 1)
                  /\ e.got[i].ctx = e.start.ctx
            /\ e.request.marks = MarksUpTo(n)
            /\ e.request.ctx = e.start.ctx
            /\ (\E i \in 1..n : client.requesters[i] = "body")
                  => e.request.body = "requester"

\* two attempts of a Client with a runner and two Requesters were sent
C26_Witness ==
    /\ client.runner
    /\ Len(client.requesters) = 2
    /\ Len(reqLog) = 2
    /\ reqLog[1].sent /\ reqLog[2].sent

\* a Client without a runner and with two Requesters sent its request
C26_WitnessDirect ==
    /\ ~client.runner
    /\ Len(client.requesters) = 2
    /\ Len(reqLog) = 1
    /\ reqLog[1].sent

\* ------------------------------------------------------------------ C27
\* some configured Requester sets the Body of the request
RequesterSetsBody == \E i \in 1..Len(client.requesters) : client.requesters[i] = "body"

\* C27: in every attempt through a Client with a runner the request starts
\* as a clone of the original bound to the scope passed to the task, with
\* no Body; a Body set by a Requester is sent and GetBody is not called;
\* otherwise an original with a GetBody has it called exactly once and the
\* body it returns is sent; when GetBody fails the HTTPClient is not invoked
\* for that attempt and the failure is the attempt's error.
C27_BodyPerAttempt ==
    client.runner =>
        /\ Len(reqLog) = Len(taskLog)
        /\ \A k \in 1..Len(reqLog) :
              LET e == reqLog[k]
              IN  /\ e.start = [ctx |-> taskLog[k].ctx, marks |-> <<>>,
                                 body |-> "nil"]
                  /\ RequesterSetsBody =>
                        /\ e.getBodyCalls = 0
                        /\ e.sent /\ e.request.body = "requester"
                  /\ (~RequesterSetsBody /\ client.getBody = "none") =>
                        /\ e.getBodyCalls = 0
                        /\ e.sent /\ e.request.body = "nil"
                  /\ (~RequesterSetsBody /\ client.getBody = "ok") =>
                        /\ e.getBodyCalls = 1
                        /\ e.sent /\ e.request.body = "getBody"
                  /\ (~RequesterSetsBody /\ client.getBody = "fail") =>
                        /\ e.getBodyCalls = 1
                        /\ ~e.sent
                        /\ taskLog[k].e = "getBodyErr"
                        /\ taskLog[k].v = ZeroV
                        /\ \A i \in 1..Len(bodies) : bodies[i].attempt # k

\* an attempt whose GetBody failed, and the Do that returned its error
C27_Witness ==
    /\ client.runner
    /\ ~RequesterSetsBody
    /\ client.getBody = "fail"
    /\ Len(reqLog) = 1
    /\ ~reqLog[1].sent
    /\ DoReturned
    /\ err = "getBodyErr"

\* a second attempt that sent a body its own call of GetBody returned
C27_WitnessGetBody ==
    /\ client.runner
    /\ Len(reqLog) = 2
    /\ reqLog[2].getBodyCalls = 1
    /\ reqLog[2].request.body = "getBody"

\* ------------------------------------------- retryhttp request factories
\* A RequestFactory over a body, and the callers of the factory, of the
\* GetBody of the requests it returned, and of Read and Close on the bodies
\* handed out.  readers holds the underlying readers (position, closed),
\* handles the bodies handed out: the reader each reads from, where that
\* reader stood when the body was handed out, the bytes read through the
\* body, and what each Close of the body found before and after.

\* the bytes of the body
Content == [i \in 1..BodyLen |-> i]

\* the factories: NewRequest and PrototypeReader over a caller's TaskBody,
\* PrototypeBytes of task.go, which is PrototypeReader over one
\* bytes.Reader, and PrototypeBytes of factories.go, which makes a
\* bytes.Reader for every body
FactoryKinds ==
    {"NewRequest", "PrototypeReader", "PrototypeBytes", "PrototypeBytesNopCloser"}

\* the factory reads every body from the one reader it was built over
SharesReader(kind) == kind # "PrototypeBytesNopCloser"

\* bytes.NewReader(body)
NewReader == [pos |-> 0, closed |-> FALSE]

BodyInit ==
    /\ client \in { [factory |-> k] : k \in FactoryKinds }
    /\ readers \in
         IF client.factory \in {"NewRequest", "PrototypeReader"}
         THEN { <<[pos |-> n, closed |-> FALSE]>> : n \in 0..BodyLen }
         ELSE IF client.factory = "PrototypeBytes" THEN { <<NewReader>> }
         ELSE { <<>> }
    /\ handles = <<>>
    /\ build = NoBuild
    /\ bodies = <<>>
    /\ reqLog = <<>>
    /\ r = PredicateOnly("nil")
    /\ pc = "idle"
    /\ RunAtRest
    /\ attemptResult = ZeroV
    /\ err = NoErr
    /\ keepTrying = FALSE

\* a factory that hands the body out where the reader stands
SeekStartNop(rd) == rd

\* body.Seek(0, io.SeekStart)
SeekStart(rd) == [rd EXCEPT !.pos = 0]

\* the readers and the new body after the factory (via = "factory") or
\* GetBody (via = "getBody") handed a body out
HandOut(via) ==
    LET rs == IF SharesReader(client.factory)
              THEN [readers EXCEPT ![1] = SeekStart(@)]
              ELSE Append(readers, NewReader)
        id == IF SharesReader(client.factory) THEN 1 ELSE Len(rs)
    IN  [readers |-> rs,
         handle |-> [reader |-> id, via |-> via, yieldPos |-> rs[id].pos,
                     yieldClosed |-> rs[id].closed, sole |-> TRUE,
                     got |-> <<>>, next |-> rs[id].pos, inOrder |-> TRUE,
                     closeCalled |-> FALSE, closeKept |-> TRUE]]

\* the bodies handed out earlier, once another body is handed out or read:
\* they are no longer the only body in use
NotSole(hs, except) ==
    [h \in 1..Len(hs) |->
        IF h = except THEN hs[h] ELSE [hs[h] EXCEPT !.sole = FALSE]]

bodyRest == <<r, runs, policies, client, bodies, reqLog, build, parentErr, ctx, p, pc,
              runVars, ch, wake, histVars, endedAt>>

\* request, err := factory(ctx)
FactoryCall ==
    /\ Len(handles) < MaxHandles
    /\ readers' = HandOut("factory").readers
    /\ handles' = Append(NotSole(handles, 0), HandOut("factory").handle)
    /\ UNCHANGED bodyRest

\* body, err := request.GetBody() on a request the factory returned
GetBodyCall ==
    /\ Len(handles) < MaxHandles
    /\ \E h \in 1..Len(handles) : handles[h].via = "factory"
    /\ readers' = HandOut("getBody").readers
    /\ handles' = Append(NotSole(handles, 0), HandOut("getBody").handle)
    /\ UNCHANGED bodyRest

\* n bytes are asked of a body: Read returns what is left, up to n.  The
\* body records the bytes it returned while it was the only body in use,
\* where its next Read should start, and whether every Read started there.
ReadBody ==
    \E h \in 1..Len(handles), n \in 1..BodyLen :
        LET rd == readers[handles[h].reader]
            to == IF rd.pos + n > BodyLen THEN BodyLen ELSE rd.pos + n
        IN  /\ ~rd.closed
            /\ rd.pos < BodyLen
            /\ readers' = [readers EXCEPT ![handles[h].reader].pos = to]
            /\ handles' = NotSole(
                  [handles EXCEPT ![h] =
                     [@ EXCEPT !.got = IF handles[h].sole
                                       THEN @ \o SubSeq(Content, rd.pos + 1, to)
                                       ELSE @,
                               !.inOrder = @ /\ rd.pos = handles[h].next,
                               !.next = to]], h)
            /\ UNCHANGED bodyRest

\* taskBodyCloser.Close and the Close of io.NopCloser: return nil
CloseBody ==
    \E h \in 1..Len(handles) :
        /\ readers' = readers
        /\ handles' = [handles EXCEPT ![h] =
              [@ EXCEPT !.closeCalled = TRUE,
                        !.closeKept = @ /\ readers'[handles[h].reader]
                                            = readers[handles[h].reader]]]
        /\ UNCHANGED bodyRest

BodyNext ==
    \/ FactoryCall
    \/ GetBodyCall
    \/ ReadBody
    \/ CloseBody

BodySpec == BodyInit /\ [][BodyNext]_vars

\* ------------------------------------------------------------------ C28
\* the factory was built over a caller's seekable body
OverSeekable == client.factory \in {"NewRequest", "PrototypeReader"}

\* C28: for a factory over a seekable body, whatever factory calls, GetBody
\* calls, full or partial reads and Close calls came before, a factory or
\* GetBody call hands out a body that stands at the start of an open
\* reader, so that reading it alone returns the original bytes in order and
\* in full; and no Close of a body closes or moves the underlying reader.
C28_BodyRewound ==
    OverSeekable =>
        /\ \A i \in 1..Len(readers) : ~readers[i].closed
        /\ \A h \in 1..Len(handles) :
              /\ handles[h].yieldPos = 0
              /\ ~handles[h].yieldClosed
              /\ handles[h].got = SubSeq(Content, 1, Len(handles[h].got))
              /\ (handles[h].sole /\ readers[handles[h].reader].pos = BodyLen)
                    => handles[h].got = Content
              /\ handles[h].closeKept

\* after a first body was read in part and closed, GetBody handed out a
\* second body, and reading it alone returned all the bytes
C28_Witness ==
    /\ client.factory = "PrototypeReader"
    /\ Len(handles) = 2
    /\ handles[1].next \in 1..(BodyLen - 1)
    /\ handles[1].closeCalled
    /\ handles[2].via = "getBody"
    /\ handles[2].sole
    /\ handles[2].got = Content

\* ------------------------------------------------------------------ C29
\* the factory is a PrototypeBytes
OverBytes == client.factory \in {"PrototypeBytes", "PrototypeBytesNopCloser"}

\* C29: for PrototypeBytes every body the factory or GetBody hands out is a
\* reader of its own over the same bytes: no two bodies read from the same
\* reader, and every Read of a body starts where the previous Read of that
\* body stopped, whatever bodies were handed out or read in between.
C29_BodiesIndependent ==
    OverBytes =>
        /\ \A h1, h2 \in 1..Len(handles) :
              h1 # h2 => handles[h1].reader # handles[h2].reader
        /\ \A h \in 1..Len(handles) : handles[h].inOrder

\* ------------------------------------------------- retryhttp.NewShouldRetry
\* a caller about to apply the predicate NewShouldRetry(codes...) returned,
\* held in r.shouldRetry, to (attemptResult, err)
ShouldRetryInit ==
    /\ r \in { PredicateOnly(s) : s \in HttpPredicates }
    /\ attemptResult \in Responses
    /\ err \in HttpErrs
    /\ keepTrying = FALSE
    /\ pc = "shouldRetry"
    /\ RunAtRest
    /\ HttpAtRest

\* the call of the predicate; keepTrying receives what it returns
ShouldRetryCall ==
    /\ pc = "shouldRetry"
    /\ pc' = "answered"
    /\ keepTrying' = NewShouldRetry(StatusCodes(r.shouldRetry), attemptResult, err)
    /\ UNCHANGED <<r, runs, policies, httpVars, parentErr, ctx, p, retries,
                   attemptResult, err, result, interval, a, obsIdx, ch, wake,
                   endedAt>>
    /\ UNCHANGED histVars

ShouldRetryNext == ShouldRetryCall

ShouldRetrySpec == ShouldRetryInit /\ [][ShouldRetryNext]_vars

\* ------------------------------------------------------------------ C30
\* what Temporary() answers for each error of HttpErrs whose chain holds
\* an error with that method
TemporaryOf ==
    [e \in {"tempYes", "tempNo", "fmtTempYes", "fmtTempNo", "DeadlineExceeded"} |->
        e \in {"tempYes", "fmtTempYes", "DeadlineExceeded"}]

\* the pairs of a predicate and a status code it was built with
RetriedStatus ==
    { <<"http429", 429>>, <<"http429or500", 429>>, <<"http429or500", 500>> }

OptionKinds == {"set", "append", "failA", "failB"}

\* the sequences of at most n options
RECURSIVE OptionLists(_)
OptionLists(n) ==
    IF n = 0 THEN { <<>> }
    ELSE OptionLists(n - 1) \cup
         { Append(l, k) : l \in { m \in OptionLists(n - 1) : Len(m) = n - 1 },
                          k \in OptionKinds }

\* the error an option returns from apply
OptionErr(kind) ==
    CASE kind = "failA" -> "errA"
      [] kind = "failB" -> "errB"
      [] OTHER -> NoErr

\* the object under construction after option i of the given kind applied
OptionApply(obj, kind, i) ==
    CASE kind = "set" -> [obj EXCEPT !.field = i]
      [] kind = "append" -> [obj EXCEPT !.list = Append(@, i)]
      [] OTHER -> obj

\* r := &runner[V]{timer: defaultTimer} and c = new(Client)
NewObject(ctor) ==
    [field |-> 0, list |-> <<>>, dflt |-> ctor = "NewRunner"]

ConstructInit ==
    /\ build \in { [ctor |-> c, opts |-> l, next |-> 1, applied |-> <<>>,
                     obj |-> NewObject(c), err |-> NoErr, pc |-> "loop",
                     returned |-> [obj |-> "nil", err |-> NoErr]] :
                       c \in {"NewRunner", "NewClient"}, l \in OptionLists(MaxOpts) }
    /\ client = "none"
    /\ bodies = <<>>
    /\ reqLog = <<>>
    /\ readers = <<>>
    /\ handles = <<>>
    /\ r = PredicateOnly("nil")
    /\ pc = "idle"
    /\ RunAtRest
    /\ attemptResult = ZeroV
    /\ err = NoErr
    /\ keepTrying = FALSE

constructRest == <<r, runs, policies, client, bodies, reqLog, readers, handles,
                   parentErr, ctx, p, pc, runVars, ch, wake, histVars, endedAt>>

\* a constructor whose loop goes on after an option failed
LoopStopsNever(e) == FALSE

\* if err := o.apply(r); err != nil { return nil, err } of NewRunner, and
\* if err = o.apply(c); err != nil { break } of NewClient
LoopStops(e) == e # NoErr

\* one iteration of: for _, o := range opts
ApplyOption ==
    /\ build.ctor # "none"
    /\ build.pc = "loop"
    /\ build.next <= Len(build.opts)
    /\ LET i == build.next
           e == OptionErr(build.opts[i])
       IN  build' = [build EXCEPT
                       !.applied = Append(@, i),
                       !.obj = OptionApply(@, build.opts[i], i),
                       !.err = e,
                       !.next = i + 1,
                       !.pc = IF LoopStops(e) THEN "after" ELSE "loop"]
    /\ UNCHANGED constructRest

\* the loop ran out of options
LoopEnd ==
    /\ build.ctor # "none"
    /\ build.pc = "loop"
    /\ build.next > Len(build.opts)
    /\ build' = [build EXCEPT !.pc = "after"]
    /\ UNCHANGED constructRest

\* the return of the constructor: NewRunner returns (nil, err) from inside
\* the loop and (r, nil) after it; NewClient falls back to
\* http.DefaultClient when no error occurred and hc is nil, sets c to nil
\* when an error occurred, and returns (c, err)
ConstructReturn ==
    /\ build.ctor # "none"
    /\ build.pc = "after"
    /\ LET o == IF build.ctor = "NewClient" /\ build.err = NoErr
                    /\ build.obj.field = 0
                THEN [build.obj EXCEPT !.dflt = TRUE]
                ELSE build.obj
       IN  build' = [build EXCEPT
                       !.obj = o,
                       !.pc = "returned",
                       !.returned = IF build.err # NoErr
                                    THEN [obj |-> "nil", err |-> build.err]
                                    ELSE [obj |-> "built", err |-> NoErr]]
    /\ UNCHANGED constructRest

ConstructNext ==
    \/ ApplyOption
    \/ LoopEnd
    \/ ConstructReturn

ConstructSpec == ConstructInit /\ [][ConstructNext]_vars

\* ------------------------------------------------------------------ C31
\* the positions of the options that return an error
FailingOptions ==
    { i \in 1..Len(build.opts) : build.opts[i] \in {"failA", "failB"} }

\* the first of them
FirstFailing == CHOOSE i \in FailingOptions : \A j \in FailingOptions : i <= j

\* the options of kind k among the first n, in order
RECURSIVE OptionsOfKind(_, _)
OptionsOfKind(k, n) ==
    IF n = 0 THEN <<>>
    ELSE IF build.opts[n] = k THEN Append(OptionsOfKind(k, n - 1), n)
    ELSE OptionsOfKind(k, n - 1)

\* C31: NewRunner and NewClient apply their options in order; when an
\* option returns an error no later option is applied and the constructor
\* returns that error with a nil runner or client; when none does, every
\* option was applied once, in order, and the object is returned with a
\* nil error.
C31_FirstErrorAborts ==
    (build.ctor # "none" /\ build.pc = "returned") =>
        IF FailingOptions = {}
        THEN /\ build.applied = [i \in 1..Len(build.opts) |-> i]
             /\ build.returned = [obj |-> "built", err |-> NoErr]
             /\ build.obj.list = OptionsOfKind("append", Len(build.opts))
        ELSE /\ build.applied = [i \in 1..FirstFailing |-> i]
             /\ build.returned =
                   [obj |-> "nil", err |-> OptionErr(build.opts[FirstFailing])]

\* a constructor returned the error of its second option, with a third
\* option, also failing, never applied
C31_Witness ==
    /\ build.ctor = "NewClient"
    /\ build.pc = "returned"
    /\ Len(build.opts) = 3
    /\ build.opts[1] = "append"
    /\ build.opts[2] = "failA"
    /\ build.opts[3] = "failB"
    /\ build.returned.err = "errA"

\* ------------------------------------------------------------------ C32
\* C32: for an exponential policy with max_interval > 0, the un-jittered
\* base every call of Next stores as previous, the first call included and
\* whatever the initial interval, is at most max_interval.
C32_BaseNeverAboveMaxInterval ==
    (ExponentialConfig /\ r.config.MaxInterval > 0 /\ p.kind = "exponential") =>
        p.previous <= p.maxInterval

\* ------------------------------------------------------------------ C33
\* the Config makes NewPolicy build an exponential policy with jitter
JitterConfig == ExponentialConfig /\ r.config.Jitter > 0

\* floor(base x jitter) for the jitter of the Config
FloorDelta(base) == (base * r.config.Jitter) \div FloatDen

\* C33: for an exponential policy with jitter > 0 and
\* delta = floor(base x jitter), the value r the random source returned is
\* in [0, 2*delta], the interval before clamping is base - delta + r, which
\* lies in [base - delta, base + delta], and the interval returned is that
\* value clamped to a positive max_interval.
C33_JitterRange ==
    JitterConfig =>
        \A k \in 1..Len(nextLog) :
            nextLog[k].ok =>
                LET b == nextLog[k].base
                    d == FloorDelta(b)
                    pre == b - d + nextLog[k].rnd
                IN  /\ nextLog[k].rnd \in 0..(2 * d)
                    /\ pre >= b - d /\ pre <= b + d
                    /\ nextLog[k].interval =
                         IF r.config.MaxInterval > 0 /\ pre > r.config.MaxInterval
                         THEN r.config.MaxInterval ELSE pre

\* the random source returned 0 on one call and 2*delta on the next, and
\* the intervals were base - delta and base + delta
C33_Witness ==
    /\ JitterConfig
    /\ r.config.MaxInterval = 0
    /\ Len(nextLog) = 2
    /\ FloorDelta(nextLog[1].base) > 0
    /\ nextLog[1].rnd = 0
    /\ nextLog[1].interval = nextLog[1].base - FloorDelta(nextLog[1].base)
    /\ nextLog[2].rnd = 2 * FloorDelta(nextLog[2].base)
    /\ nextLog[2].interval = nextLog[2].base + FloorDelta(nextLog[2].base)

\* ------------------------------------------------------------------ C34
\* the policy is a constant or an exponential policy
CountsRetries == p.kind \in {"constant", "exponential"}

\* C34: for constant and exponential policies retry_count never decreases:
\* a Next that returns true adds exactly one, a Next that returns false and
\* a Cancel leave it unchanged, and with max_retries > 0 it never exceeds
\* max_retries.
C34_RetryCountMonotonic ==
    [][ CountsRetries =>
          /\ p'.retryCount >= p.retryCount
          /\ (IsNextCall /\ keepTrying') => p'.retryCount = p.retryCount + 1
          /\ (IsNextCall /\ ~keepTrying') => p'.retryCount = p.retryCount
          /\ IsCancelCall => p'.retryCount = p.retryCount
          /\ p.maxRetries > 0 => p'.retryCount <= p.maxRetries
      ]_vars

\* a policy that used up its max_retries, refused the next call and was
\* cancelled afterwards still counts max_retries
C34_Witness ==
    /\ pc = "policy"
    /\ CountsRetries
    /\ p.maxRetries = MaxRetriesBound
    /\ p.retryCount = p.maxRetries
    /\ Len(nextLog) = MaxRetriesBound + 1
    /\ ~nextLog[Len(nextLog)].ok
    /\ cancelCalls = 1

\* ---------------------------------------------------------- CleanupResponse
\* a caller about to pass an Attempt to CleanupResponse: the Attempt a, the
\* state of a.Context in ctx, and in bodies the body of a.Result, with
\* ref = FALSE for a response whose Body is nil
CleanupInit ==
    /\ ctx \in { [err |-> e, deadline |-> FALSE] : e \in CtxErrs \cup {NoErr} }
    /\ a \in { [Context |-> "policyCtx", Result |-> v, Err |-> e, Retries |-> n,
                 Next |-> x] :
                   v \in {ZeroV, 200, 429}, e \in {NoErr, "tempYes"},
                   n \in 0..MaxRetriesBound, x \in {-1, 0, 2} }
    /\ bodies \in IF a.Result = ZeroV THEN { <<>> }
                  ELSE { <<[NewBody(1) EXCEPT !.ref = b]>> : b \in BOOLEAN }
    /\ pc = "cleanup"
    /\ client = "none"
    /\ reqLog = <<>>
    /\ readers = <<>>
    /\ handles = <<>>
    /\ build = NoBuild
    /\ r = PredicateOnly("nil")
    /\ parentErr = NoErr
    /\ p = NilPolicy
    /\ retries = 0
    /\ attemptResult = ZeroV
    /\ err = NoErr
    /\ result = ZeroV
    /\ interval = 0
    /\ keepTrying = FALSE
    /\ obsIdx = 0
    /\ ch = "none"
    /\ wake = "none"
    /\ taskCalls = 1
    /\ taskLog = <<>>
    /\ dispatchLog = <<>>
    /\ nextLog = <<>>
    /\ trace = <<>>
    /\ timerLog = <<>>
    /\ stopCalls = 0
    /\ cancelCalls = 0
    /\ endedAt = [pc |-> "never", calls |-> 0]
    /\ runs = <<>>
    /\ policies = <<>>

\* CleanupResponse(a)
CleanupCall ==
    /\ pc = "cleanup"
    /\ pc' = "cleaned"
    /\ bodies' = CleanupResponse(a, ctx.err, 1)
    /\ UNCHANGED <<r, runs, policies, client, reqLog, readers, handles, build,
                   parentErr, ctx, p, runVars, ch, wake, histVars, endedAt>>

CleanupNext == CleanupCall

CleanupSpec == CleanupInit /\ [][CleanupNext]_vars

\* ------------------------------------------------------------------ C35
\* the Attempt is not Done and its response and the body of it are not nil
CleanupApplies ==
    /\ a.Next > 0
    /\ ctx.err = NoErr
    /\ a.Result # ZeroV
    /\ bodies[1].ref

\* C35: CleanupResponse drains the body to its end, closes it and sets the
\* reference to nil exactly when the Attempt is not Done and has a non-nil
\* response with a non-nil body; in every other case (Next <= 0, scope
\* ended, nil response, nil body) the response and its body are untouched.
C35_CleanupExactlyWhenNotDone ==
    [][ pc = "cleanup" =>
          bodies' = IF CleanupApplies
                    THEN <<[attempt |-> 1, drained |-> TRUE, closed |-> TRUE,
                            ref |-> FALSE]>>
                    ELSE bodies
      ]_vars

\* the body of an Attempt that was not done has been cleaned up
C35_Witness ==
    /\ pc = "cleaned"
    /\ a.Next > 0 /\ ctx.err = NoErr /\ a.Result # ZeroV
    /\ bodies[1].drained /\ bodies[1].closed /\ ~bodies[1].ref

\* the open body of an Attempt whose scope had ended was left alone
C35_WitnessDone ==
    /\ pc = "cleaned"
    /\ a.Next > 0 /\ ctx.err # NoErr /\ a.Result # ZeroV
    /\ bodies[1].ref /\ ~bodies[1].drained /\ ~bodies[1].closed

\* -------------------------------------------------- Run with a large jitter
\* The Runs of Spec for constant policies and for exponential policies
\* whose Jitter is 1.0, for which jitterize can return an interval of 0.
JitterRunConfigs ==
    { [Interval |-> 2, Jitter |-> j, Multiplier |-> FloatDen, MaxRetries |-> n,
       MaxElapsedTime |-> t, MaxInterval |-> 0] :
         j \in {0, FloatDen}, n \in {0, 1, MaxRetriesBound}, t \in {0, 1} }

JitterRunInit ==
    /\ r \in { [factory |-> "Config", config |-> c, shouldRetry |-> "nil",
                onAttempts |-> NumObservers, timer |-> t] :
                 c \in JitterRunConfigs, t \in Timers }
    /\ pc = "idle"
    /\ RunAtRest
    /\ HttpAtRest
    /\ attemptResult = ZeroV
    /\ err = NoErr
    /\ keepTrying = FALSE

JitterRunSpec == JitterRunInit /\ [][Next]_vars

\* ------------------------------------------------------------------ C36
\* C36: in every Run, once an Attempt for which Done() was true when it was
\* dispatched has been dispatched, the task is not invoked again in that
\* Run, whatever policy Config built.
C36_NoTaskAfterDone ==
    \A j \in 1..Len(dispatchLog) :
        dispatchLog[j].done => taskCalls <= dispatchLog[j].attempt

\* ------------------------------------------------- DefaultTestErrorForRetry
\* a caller about to test the error of a task result; the strategy is not
\* given the value of the result
DefaultTestInit ==
    /\ r = PredicateOnly("nil")
    /\ attemptResult \in Results
    /\ err \in DefaultErrs
    /\ keepTrying = FALSE
    /\ pc = "defaultTest"
    /\ RunAtRest
    /\ HttpAtRest

\* the call of DefaultTestErrorForRetry; keepTrying receives what it returns
DefaultTestCall ==
    /\ pc = "defaultTest"
    /\ pc' = "tested"
    /\ keepTrying' = DefaultTestErrorForRetry(err)
    /\ UNCHANGED <<r, runs, policies, httpVars, parentErr, ctx, p, retries,
                   attemptResult, err, result, interval, a, obsIdx, ch, wake,
                   endedAt>>
    /\ UNCHANGED histVars

DefaultTestNext == DefaultTestCall

DefaultTestSpec == DefaultTestInit /\ [][DefaultTestNext]_vars

\* ------------------------------------------------------------------ C37
\* the signal of each error of DefaultErrs that carries one, itself or in
\* its chain: that of the outermost SetRetryable
SignalCarried ==
    [e \in {"wrapNo", "wrapYes", "fmtNo", "fmtYes", "yesOverNo", "noOverYes",
            "sigNoTempYes", "sigYesTempNo", "fmtSigNoTempYes"} |->
        e \in {"wrapYes", "fmtYes", "yesOverNo", "sigYesTempNo"}]

\* C37: DefaultTestErrorForRetry returns false for a nil error; otherwise
\* the retryability signal the error or an error of its chain carries;
\* otherwise what the Temporary() of its chain returns when there is one;
\* otherwise true.
C37_DefaultStrategy ==
    pc = "tested" =>
        keepTrying =
            IF err = NoErr THEN FALSE
            ELSE IF err \in DOMAIN SignalCarried THEN SignalCarried[err]
            ELSE IF err \in DOMAIN TemporaryOf THEN TemporaryOf[err]
            ELSE TRUE

\* a temporary error marked not retryable was not retried
C37_Witness ==
    /\ pc = "tested"
    /\ err = "fmtSigNoTempYes"
    /\ ~keepTrying

\* ------------------------------------------------- retryhttp HTTP tasks
\* One invocation of an HTTP task: the closure NewTask(c, opts...) returns
\* (client.kind = "NewTask"), the closure of NewSimpleTask, or Task.DoCtx
\* (client.kind = "DoCtx", with or without a Converter).  The task calls the request factory, the client
\* and the converter, whose outcomes are chosen here; reqLog records the
\* calls, bodies the body of the response, attemptResult the response,
\* result and err the named results of the task.

TaskKinds ==
    { [kind |-> "NewTask", converter |-> TRUE],
      [kind |-> "DoCtx", converter |-> TRUE],
      [kind |-> "DoCtx", converter |-> FALSE],
      [kind |-> "NewSimpleTask", converter |-> FALSE] }

\* what the Client returns: a response with a body, a response whose Body
\* is nil, an error, or a response together with an error
TaskClientOutcomes ==
    { [v |-> 200, e |-> NoErr, body |-> TRUE],
      [v |-> 404, e |-> NoErr, body |-> TRUE],
      [v |-> 503, e |-> NoErr, body |-> TRUE],
      [v |-> 200, e |-> NoErr, body |-> FALSE],
      [v |-> ZeroV, e |-> "clientErr", body |-> FALSE],
      [v |-> 500, e |-> "clientErr", body |-> TRUE] }

\* what the Converter returns
ConverterOutcomes ==
    { [v |-> 1, e |-> NoErr], [v |-> 2, e |-> NoErr],
      [v |-> ZeroV, e |-> "convErr"], [v |-> 1, e |-> "convErr"] }

TaskInit ==
    /\ client \in TaskKinds
    /\ bodies = <<>>
    /\ reqLog = <<>>
    /\ readers = <<>>
    /\ handles = <<>>
    /\ build = NoBuild
    /\ r = PredicateOnly("nil")
    /\ pc = "factory"
    /\ RunAtRest
    /\ attemptResult = ZeroV
    /\ err = NoErr
    /\ keepTrying = FALSE

taskRest == <<r, runs, policies, client, readers, handles, build, parentErr,
              ctx, p, retries, interval, keepTrying, a, obsIdx, ch, wake,
              histVars, endedAt>>

\* where the task goes once transact returned err: NewTask returns when
\* err == nil, DoCtx when err != nil, NewSimpleTask cleans up and returns
AfterTransact(kind, e) ==
    CASE kind = "NewTask" -> (IF e = NoErr THEN "returned" ELSE "convert")
      [] kind = "DoCtx" -> (IF e # NoErr THEN "returned" ELSE "convert")
      [] OTHER -> "cleanup"

\* request, err = t.factory(ctx) of transact; on an error the client is
\* not called and transact returns
TaskFactory ==
    /\ pc = "factory"
    /\ \E fe \in {NoErr, "factoryErr"} :
         /\ err' = fe
         /\ reqLog' = Append(reqLog, [call |-> "factory", v |-> ZeroV, e |-> fe])
         /\ pc' = IF fe = NoErr THEN "client" ELSE AfterTransact(client.kind, fe)
    /\ UNCHANGED <<attemptResult, result, bodies>>
    /\ UNCHANGED taskRest

\* response, err = t.client(request) of transact, and the return of
\* transact
TaskClient ==
    /\ pc = "client"
    /\ \E o \in TaskClientOutcomes :
         /\ attemptResult' = o.v
         /\ err' = o.e
         /\ bodies' = IF o.v # ZeroV
                      THEN <<[NewBody(1) EXCEPT !.ref = o.body]>> ELSE <<>>
         /\ reqLog' = Append(reqLog, [call |-> "client", v |-> o.v, e |-> o.e])
         /\ pc' = AfterTransact(client.kind, o.e)
    /\ UNCHANGED result
    /\ UNCHANGED taskRest

\* result, err = c(ctx, response), skipped by DoCtx without a Converter
TaskConvert ==
    /\ pc = "convert"
    /\ IF client.converter
       THEN \E o \in ConverterOutcomes :
              /\ result' = o.v
              /\ err' = o.e
              /\ reqLog' = Append(reqLog, [call |-> "converter",
                                           v |-> attemptResult, e |-> o.e])
       ELSE UNCHANGED <<result, err, reqLog>>
    /\ pc' = "cleanup"
    /\ UNCHANGED <<attemptResult, bodies>>
    /\ UNCHANGED taskRest

\* cleanup(response), deferred or called, then the return of the task
TaskCleanup ==
    /\ pc = "cleanup"
    /\ bodies' = IF attemptResult # ZeroV /\ bodies[1].ref
                 THEN <<[bodies[1] EXCEPT !.drained = TRUE, !.closed = TRUE]>>
                 ELSE bodies
    /\ pc' = "returned"
    /\ UNCHANGED <<attemptResult, result, err, reqLog>>
    /\ UNCHANGED taskRest

TaskNext ==
    \/ TaskFactory
    \/ TaskClient
    \/ TaskConvert
    \/ TaskCleanup

TaskSpec == TaskInit /\ [][TaskNext]_vars

\* ------------------------------------------------------------------ C38
\* the calls of the given kind the task made
CallsOf(kind) == { i \in 1..Len(reqLog) : reqLog[i].call = kind }

\* the error of the request factory or of the client, nil when both
\* succeeded
TransactErr ==
    IF \E i \in CallsOf("factory") \cup CallsOf("client") : reqLog[i].e # NoErr
    THEN reqLog[CHOOSE i \in CallsOf("factory") \cup CallsOf("client") :
                  reqLog[i].e # NoErr].e
    ELSE NoErr

\* C38: a task built with a converter returns the error of the request
\* factory or of the client with the zero value, without invoking the
\* converter, when one of them fails; when the client returns a response
\* it invokes the converter exactly once with that response, returns the
\* converter's value and error, and the body of the response is drained
\* and closed afterwards.
C38_ConverterOnlyOnResponse ==
    (pc = "returned" /\ client.converter) =>
        IF TransactErr # NoErr
        THEN /\ err = TransactErr
             /\ result = ZeroV
             /\ CallsOf("converter") = {}
        ELSE /\ Cardinality(CallsOf("converter")) = 1
             /\ \A i \in CallsOf("converter") :
                   /\ reqLog[i].v = attemptResult
                   /\ reqLog[i].e = err
             /\ \A i \in CallsOf("client") : reqLog[i].v = attemptResult
             /\ bodies[1].ref => (bodies[1].drained /\ bodies[1].closed)

\* the same for the tasks of Task.DoCtx alone
DoCtxConverterOnlyOnResponse == client.kind = "DoCtx" => C38_ConverterOnlyOnResponse

\* ------------------------------------------------- termination of Run
\* Run under the scheduling the claim assumes.  The goroutine of Run keeps
\* taking its next step: the task and every callback return, and a select
\* with a ready case proceeds.  A started timer delivers on its channel.
\* Nothing is assumed of the caller: Run may never be called, the parent
\* context may never end, the deadline may never pass.
RunStep ==
    \/ LoopCheck
    \/ TaskReturn
    \/ HandleAttempt
    \/ Dispatch
    \/ AfterAttempt
    \/ TimerStart
    \/ Select
    \/ Wakeup
    \/ Return

LiveSpec == Init /\ [][Next]_vars /\ WF_vars(RunStep) /\ WF_vars(TimerFire)

\* ------------------------------------------------------------------ C39
\* the runner's policy limits the retries: Config built it with
\* MaxRetries = n > 0
LimitsRetries == r.factory = "Config" /\ r.config.MaxRetries > 0

\* C39: when the policy has max_retries = n > 0, the task and the
\* callbacks return and a started timer fires unless the context ends
\* first, a Run that was started eventually returns, and the task is
\* invoked at most n + 1 times.
C39_RunTerminates ==
    /\ [](LimitsRetries => taskCalls <= r.config.MaxRetries + 1)
    /\ ((LimitsRetries /\ pc # "idle") ~> Returned)

\* a Run limited to MaxRetriesBound retries returned after using all of
\* them, each after a wait that the timer ended
C39_Witness ==
    /\ Returned
    /\ LimitsRetries
    /\ r.config.MaxRetries = MaxRetriesBound
    /\ taskCalls = MaxRetriesBound + 1
    /\ r.timer = "default"
    /\ parentErr = NoErr
    /\ HowEnded = "stop"

====
